---- MODULE Spec2Model ----
(***************************************************************************)
(* CANopen SDO transfer engine of node-canopen (source/protocol/sdo.js):   *)
(* the SdoClient and SdoServer state machines, the Transfer context, the   *)
(* per-server Queue, and the 8-byte frames they exchange.                  *)
(***************************************************************************)
EXTENDS Integers, Sequences, FiniteSets, TLC

VARIABLES
    mode,       \* "closed": client and server wired together; "client"/"server": one side facing an arbitrary peer; "config": before init(); "init": a run of init()
    servers,    \* SdoClient.servers: the peer table init() builds, by server id
    listeners,  \* the 'message' handlers init() has registered on the device, for the client and for the server
    params,     \* the SDO parameter entries of the dictionary: 0x1280..0x12FF (client), and 0x1200..0x127F (server) when init() is run
    calls,      \* every upload()/download() call so far: its arguments and the state of its promise
    queue,      \* SdoClient.servers[id].queue.queue
    pending,    \* SdoClient.servers[id].queue.pending
    transfers,  \* SdoClient.transfers[cobIdRx], keyed here by the server id
    orphans,    \* Transfer objects replaced in SdoClient.transfers while still active
    sctx,       \* SdoServer.clients[cobIdRx]
    dict,       \* raw bytes of the server's object dictionary entries
    c2s,        \* frames sent by the client, not yet received by the server
    s2c,        \* frames sent by the server, not yet received by the client
    events,     \* per server: the thunks started and the promises settled, in order (observation only)
    wire,       \* per server: every frame of its connection put on the bus so far, with its sender (observation only)
    last,       \* what the last step was and what it did (observation only)
    sync        \* the Sync producer: its fields timer and syncCount, and the intervals of setInterval() still running

vars == <<mode, params, servers, listeners, calls, queue, pending, transfers, orphans, sctx, dict, c2s, s2c, events, wire, last, sync>>

-----------------------------------------------------------------------------
(* Bounds of the model *)

\* number of upload()/download() calls made in one behaviour
MaxReq == 2
\* longest payload downloaded by the client (two full segments are 14 bytes)
MaxLen == 14
\* timer ticks that make up a non-zero timeout
TimerTicks == 1
\* frames an arbitrary peer sends in one behaviour
MaxPeerFrames == 3

-----------------------------------------------------------------------------
(* Sync: the state after the constructor *)

\* this.timer = null
NoTimer == 0

\* timer and syncCount are the fields of the object; intervals maps the handle
\* of every interval that was set and not cleared to its period; handles
\* counts the handles setInterval() has returned; called and prev observe the
\* last of start() and stop() that was called and the counter of the frame
\* before, of the same run
SyncInit ==
    [timer |-> NoTimer, syncCount |-> 0, intervals |-> <<>>, handles |-> 0,
     called |-> "none", prev |-> -1]

-----------------------------------------------------------------------------
(* SdoCode, ClientCommand, ServerCommand *)

TOGGLE_BIT == 84082688
TIMEOUT == 84148224
BAD_COMMAND == 84148225
WRITE_ONLY == 100728833
READ_ONLY == 100728834
OBJECT_UNDEFINED == 100794368
BAD_LENGTH == 101122064
BAD_SUB_INDEX == 101253137
VALUE_HIGH == 101253169
VALUE_LOW == 101253170

CCS_DOWNLOAD_SEGMENT == 0
CCS_DOWNLOAD_INITIATE == 1
CCS_UPLOAD_INITIATE == 2
CCS_UPLOAD_SEGMENT == 3
CCS_ABORT == 4

SCS_UPLOAD_SEGMENT == 0
SCS_DOWNLOAD_SEGMENT == 1
SCS_UPLOAD_INITIATE == 2
SCS_DOWNLOAD_INITIATE == 3
SCS_ABORT == 4

-----------------------------------------------------------------------------
(* Integer and Buffer primitives used by the code *)

Min(a, b) == IF a <= b THEN a ELSE b

RECURSIVE Pow2(_)
Pow2(n) == IF n = 0 THEN 1 ELSE 2 * Pow2(n - 1)

Shl(a, n) == a * Pow2(n)
Shr(a, n) == a \div Pow2(n)

RECURSIVE BitAnd(_, _)
BitAnd(a, b) ==
    IF a = 0 \/ b = 0 THEN 0
    ELSE ((a % 2) * (b % 2)) + 2 * BitAnd(a \div 2, b \div 2)

RECURSIVE BitOr(_, _)
BitOr(a, b) ==
    IF a = 0 THEN b
    ELSE IF b = 0 THEN a
    ELSE (IF (a % 2) + (b % 2) > 0 THEN 1 ELSE 0) + 2 * BitOr(a \div 2, b \div 2)

\* toggle ^= 1
BitXor1_Keep(a) == a
BitXor1(a) == 1 - a

\* Buffer.alloc(n)
Alloc(n) == [i \in 1..n |-> 0]

\* buf.slice(a, b)
Slice(buf, a, b) == SubSeq(buf, a + 1, Min(b, Len(buf)))

\* src.copy(target, targetStart, sourceStart, sourceEnd): the bytes that fit
BufCopy(src, target, targetStart, sourceStart, sourceEnd) ==
    LET avail == Min(sourceEnd, Len(src)) - sourceStart
        room  == Len(target) - targetStart
        n     == IF Min(avail, room) > 0 THEN Min(avail, room) ELSE 0
    IN  [k \in 1..Len(target) |->
            IF k - 1 >= targetStart /\ k - 1 < targetStart + n
            THEN src[(k - 1 - targetStart) + sourceStart + 1]
            ELSE target[k]]

\* Buffer.concat([a, b], size)
Concat(a, b, size) == SubSeq(a \o b, 1, size)

WriteUInt16LE(v) == <<v % 256, (v \div 256) % 256>>
ReadUInt16LE(buf, off) == buf[off + 1] + 256 * buf[off + 2]
WriteUInt32LE(v) ==
    <<v % 256, (v \div 256) % 256, (v \div 65536) % 256, (v \div 16777216) % 256>>
ReadUInt32LE(buf, off) ==
    buf[off + 1] + 256 * buf[off + 2] + 65536 * buf[off + 3] + 16777216 * buf[off + 4]

\* a message of the CAN transport
Msg(id, data) == [id |-> id, data |-> data]

-----------------------------------------------------------------------------
(* class Transfer *)

NoDone == [kind |-> "none", value |-> <<>>, code |-> 0]
Resolved(v) == [kind |-> "resolve", value |-> v, code |-> 0]
Rejected(c) == [kind |-> "reject", value |-> <<>>, code |-> c]
\* resolve() called without data
Undefined == <<"undefined">>

\* what a method or handler did: the context after it, the frames it sent,
\* and the call it made to the promise's resolve/reject
Eff(t, out, done) == [t |-> t, out |-> out, done |-> done]

NewTransfer(rid, index, subIndex, data, timeout, cobId) ==
    [rid |-> rid, index |-> index, subIndex |-> subIndex, timeout |-> timeout,
     cobId |-> cobId, data |-> data, size |-> Len(data),
     active |-> FALSE, toggle |-> 0, timer |-> "null", elapsed |-> 0]

\* start() that arms no timer
Transfer_start_NoTimer(t) == [t EXCEPT !.active = TRUE]
Transfer_start(t) ==
    IF t.timeout # 0
    THEN [t EXCEPT !.active = TRUE, !.timer = "armed", !.elapsed = 0]
    ELSE [t EXCEPT !.active = TRUE]

\* timer.refresh() re-arms a running timer; on a cleared one it does nothing
Transfer_refresh_Noop(t) == t
Transfer_refresh(t) ==
    IF t.timeout = 0 THEN t
    ELSE IF t.timer = "armed" THEN [t EXCEPT !.elapsed = 0]
    ELSE t

ClearTimeout(t) == IF t.timer = "null" THEN t ELSE [t EXCEPT !.timer = "cleared"]

Transfer_resolve_StaysActive(t, data) == Eff(ClearTimeout(t), <<>>, Resolved(data))
Transfer_resolve(t, data) ==
    Eff(ClearTimeout([t EXCEPT !.active = FALSE]), <<>>, Resolved(data))

Transfer_reject(t, code) ==
    Eff(ClearTimeout([t EXCEPT !.active = FALSE]), <<>>, Rejected(code))

AbortFrame(t, code) ==
    <<128>> \o WriteUInt16LE(t.index) \o <<t.subIndex>> \o WriteUInt32LE(code)

Transfer_abort(t, code) ==
    LET r == Transfer_reject(t, code)
    IN  Eff(r.t, <<Msg(t.cobId, AbortFrame(t, code))>>, r.done)

\* transfer.send(data) followed by transfer.refresh()
SendRefresh(t, data) == Eff(Transfer_refresh(t), <<Msg(t.cobId, data)>>, NoDone)

-----------------------------------------------------------------------------
(* class SdoClient: peer table, upload(), download() and the frame handlers *)

\* the server node ids of the client's parameter entries 0x1280.. (addServer)
ServerIds == {11, 12}

\* the indexes 0x1280..0x12FF
ParamIndexes == 4736..4863

\* eds.getEntry(index) === undefined
NoEntry == <<>>

\* an UNSIGNED32 sub-entry value: bits 31..29 in hi, bits 28..0 in lo
U32(hi, lo) == [hi |-> hi, lo |-> lo]

\* the smallest index of S, none when S is empty
FirstIndex(S, none) == IF S = {} THEN none ELSE CHOOSE i \in S : \A j \in S : i <= j

\* getServer() that finds nothing
SdoClient_getServer_Null(p, serverId) == 0
\* SdoClient.getServer(serverId): the index of the first entry whose sub-entry
\* 3 holds serverId, 0 for null; an entry is <<cobIdTx, cobIdRx, serverId>>
SdoClient_getServer(p, serverId) ==
    FirstIndex({i \in ParamIndexes : p[i] # NoEntry /\ p[i][3] = serverId}, 0)

\* what addServer()/removeServer() did: the entries after it, the error thrown
Configured(p, error) == [params |-> p, error |-> error]

\* eds.addEntry(index, ...) and the addSubEntry calls: an index that holds an
\* entry is refused
Eds_addEntry(p, index, entry) ==
    IF index \in DOMAIN p /\ p[index] # NoEntry THEN Configured(p, "EdsError")
    ELSE Configured([i \in DOMAIN p \cup {index} |-> IF i = index THEN entry ELSE p[i]], "none")

\* SdoClient.addServer(serverId, cobIdTx, cobIdRx): the loop leaves index at
\* 0x1300 when every object of the range exists
SdoClient_addServer(p, serverId, cobIdTx, cobIdRx) ==
    IF serverId < 1 \/ serverId > 127 THEN Configured(p, "RangeError")
    ELSE IF SdoClient_getServer(p, serverId) # 0 THEN Configured(p, "EdsError")
    ELSE LET index == FirstIndex({i \in ParamIndexes : p[i] = NoEntry}, 4864)
         IN  Eds_addEntry(p, index, <<cobIdTx, cobIdRx, serverId>>)

\* SdoClient.removeServer(serverId)
SdoClient_removeServer(p, serverId) ==
    LET index == SdoClient_getServer(p, serverId)
    IN  IF index = 0 THEN Configured(p, "ReferenceError")
        ELSE Configured([p EXCEPT ![index] = NoEntry], "none")

\* the entries after construction, and after addServer() for every server
ParamsNone == [i \in ParamIndexes |-> NoEntry]
RECURSIVE ParamsOf(_, _)
ParamsOf(p, ids) ==
    IF ids = {} THEN p
    ELSE LET id == CHOOSE i \in ids : \A j \in ids : i <= j
         IN  ParamsOf(SdoClient_addServer(p, id, U32(0, 1536), U32(0, 1408)).params,
                      ids \ {id})

\* SdoClient.init(): the 11-bit COB-ID of a parameter sub-entry
InitCobId(v, peerId) ==
    LET m == BitAnd(v, 2047)
    IN  IF BitAnd(m, 15) = 0 THEN BitOr(m, peerId) ELSE m

\* SdoClient.servers after addServer() for every server and init(): each peer
\* with the object it came from
ServersInit ==
    [id \in ServerIds |->
        [from |-> SdoClient_getServer(ParamsOf(ParamsNone, ServerIds), id),
         cobIdTx |-> InitCobId(1536, id), cobIdRx |-> InitCobId(1408, id)]]

\* SdoClient.servers[serverId]
Servers(serverId) == servers[serverId]

NoError == <<"none", "">>
ErrorNotMapped == <<"ReferenceError", "SDO server not mapped.">>

\* table[key] = peer
Put(peers, key, peer) ==
    [k \in DOMAIN peers \cup {key} |-> IF k = key THEN peer ELSE peers[k]]

\* the COB-ID upload() and download() derive from the one of the default server
DefaultCobId(cobId, serverId) ==
    IF BitAnd(cobId, 15) = 0 THEN BitOr(cobId, serverId) ELSE cobId

\* the lookup upload() and download() start with: the error thrown, and the
\* table with the peer derived from the default server, servers[0]
SdoClient_findServer(table, serverId) ==
    IF serverId \in DOMAIN table THEN [error |-> NoError, table |-> table]
    ELSE IF 0 \notin DOMAIN table THEN [error |-> ErrorNotMapped, table |-> table]
    ELSE [error |-> NoError,
          table |-> Put(table, serverId,
                        [from |-> 0,
                         cobIdTx |-> DefaultCobId(table[0].cobIdTx, serverId),
                         cobIdRx |-> DefaultCobId(table[0].cobIdRx, serverId)])]

\* the thunk upload() pushes on the queue
UploadThunk(rid, req) ==
    LET server == Servers(req.serverId)
        t == NewTransfer(rid, req.index, req.subIndex, <<>>, req.timeout, server.cobIdTx)
        sendBuffer == <<Shl(CCS_UPLOAD_INITIATE, 5)>> \o WriteUInt16LE(req.index)
                      \o <<req.subIndex>> \o Alloc(4)
    IN  Eff(Transfer_start(t), <<Msg(server.cobIdTx, sendBuffer)>>, NoDone)

\* download(): the command byte of an expedited initiate with every payload of
\* at most 4 bytes
DownloadHeader(len) ==
    IF len > 4
    THEN BitOr(Shl(CCS_DOWNLOAD_INITIATE, 5), 1)
    ELSE BitOr(Shl(CCS_DOWNLOAD_INITIATE, 5), BitOr(Shl(4 - len, 2), 3))

\* the thunk download() pushes on the queue
DownloadThunk(rid, req) ==
    LET server == Servers(req.serverId)
        t == NewTransfer(rid, req.index, req.subIndex, req.data, req.timeout, server.cobIdTx)
        head == <<DownloadHeader(Len(req.data))>> \o WriteUInt16LE(req.index) \o <<req.subIndex>>
        sendBuffer ==
            IF Len(req.data) > 4
            THEN head \o WriteUInt32LE(Len(req.data))
            ELSE BufCopy(req.data, head \o Alloc(4), 4, 0, Len(req.data))
    IN  Eff(Transfer_start(t), <<Msg(server.cobIdTx, sendBuffer)>>, NoDone)

Thunk(rid, req) ==
    IF req.kind = "upload" THEN UploadThunk(rid, req) ELSE DownloadThunk(rid, req)

SdoClient_uploadInitiate(t, data) ==
    IF BitAnd(data[1], 2) # 0
    THEN LET size == IF BitAnd(data[1], 1) # 0 THEN 4 - BitAnd(Shr(data[1], 2), 3) ELSE 4
         IN  Transfer_resolve(t, Slice(data, 4, 4 + size))
    ELSE LET sendBuffer == <<Shl(CCS_UPLOAD_SEGMENT, 5)>> \o Alloc(7)
             t1 == IF BitAnd(data[1], 1) # 0
                   THEN [t EXCEPT !.size = ReadUInt32LE(data, 4)]
                   ELSE t
         IN  SendRefresh(t1, sendBuffer)

ToggleMatches(t, data) == BitAnd(data[1], 16) = Shl(t.toggle, 4)

SdoClient_uploadSegment(t, data) ==
    IF ~t.active THEN Eff(t, <<>>, NoDone)
    ELSE IF ~ToggleMatches(t, data) THEN Transfer_abort(t, TOGGLE_BIT)
    ELSE LET count == 7 - BitAnd(Shr(data[1], 1), 7)
             payload == Slice(data, 1, count + 1)
             size == Len(t.data) + count
             buffer == Concat(t.data, payload, size)
         IN  IF BitAnd(data[1], 1) # 0
             THEN IF t.size # size
                  THEN Transfer_abort(t, BAD_LENGTH)
                  ELSE Transfer_resolve(t, buffer)
             ELSE LET t1 == [t EXCEPT !.toggle = BitXor1(t.toggle), !.data = buffer]
                      header == BitOr(Shl(CCS_UPLOAD_SEGMENT, 5), Shl(t1.toggle, 4))
                  IN  SendRefresh(t1, <<header>> \o Alloc(7))

\* the first segment without the c bit
SdoClient_downloadInitiate_NoLast(t) ==
    IF t.size <= 4 THEN Transfer_resolve(t, Undefined)
    ELSE LET size == Min(7, Len(t.data))
             t1 == [t EXCEPT !.size = size]
             body == BufCopy(t.data, Alloc(8), 1, 0, size)
             header0 == BitOr(Shl(CCS_DOWNLOAD_SEGMENT, 5), Shl(7 - size, 1))
         IN  SendRefresh(t1, [body EXCEPT ![1] = header0])

SdoClient_downloadInitiate(t) ==
    IF t.size <= 4 THEN Transfer_resolve(t, Undefined)
    ELSE LET size == Min(7, Len(t.data))
             t1 == [t EXCEPT !.size = size]
             body == BufCopy(t.data, Alloc(8), 1, 0, size)
             header0 == BitOr(Shl(CCS_DOWNLOAD_SEGMENT, 5), Shl(7 - size, 1))
             header == IF Len(t.data) = size THEN BitOr(header0, 1) ELSE header0
         IN  SendRefresh(t1, [body EXCEPT ![1] = header])

SdoClient_downloadSegment(t, data) ==
    IF ~t.active THEN Eff(t, <<>>, NoDone)
    ELSE IF ~ToggleMatches(t, data) THEN Transfer_abort(t, TOGGLE_BIT)
    ELSE IF t.size = Len(t.data) THEN Transfer_resolve(t, Undefined)
    ELSE LET count == Min(7, Len(t.data) - t.size)
             body == BufCopy(t.data, Alloc(8), 1, t.size, t.size + count)
             t1 == [t EXCEPT !.toggle = BitXor1(t.toggle), !.size = t.size + count]
             header0 == BitOr(Shl(CCS_DOWNLOAD_SEGMENT, 5),
                              BitOr(Shl(t1.toggle, 4), Shl(7 - count, 1)))
             header == IF t1.size = Len(t1.data) THEN BitOr(header0, 1) ELSE header0
         IN  SendRefresh(t1, [body EXCEPT ![1] = header])

\* the ABORT case reading the code at offset 0
ClientOnAbort_WrongOffset(t, data) == Transfer_abort(t, ReadUInt32LE(data, 0))
\* the ABORT case of SdoClient._onMessage
ClientOnAbort(t, data) == Transfer_abort(t, ReadUInt32LE(data, 4))

\* SdoClient._onMessage, for a message whose id has a Transfer
SdoClient_onMessage(t, data) ==
    LET scs == Shr(data[1], 5)
    IN  CASE scs = SCS_UPLOAD_SEGMENT -> SdoClient_uploadSegment(t, data)
          [] scs = SCS_DOWNLOAD_SEGMENT -> SdoClient_downloadSegment(t, data)
          [] scs = SCS_UPLOAD_INITIATE -> SdoClient_uploadInitiate(t, data)
          [] scs = SCS_DOWNLOAD_INITIATE -> SdoClient_downloadInitiate(t)
          [] scs = SCS_ABORT -> ClientOnAbort(t, data)
          [] OTHER -> Transfer_abort(t, BAD_COMMAND)

-----------------------------------------------------------------------------
(* SdoCode as a table, codeToString and SdoError *)

\* the properties of the object SdoCode, in the order of the source
SdoCodeTable ==
    <<
      <<"TOGGLE_BIT", TOGGLE_BIT>>,
      <<"TIMEOUT", TIMEOUT>>,
      <<"BAD_COMMAND", BAD_COMMAND>>,
      <<"BAD_BLOCK_SIZE", 84148226>>,
      <<"BAD_BLOCK_SEQUENCE", 84148227>>,
      <<"BAD_BLOCK_CRC", 84148228>>,
      <<"OUT_OF_MEMORY", 84148229>>,
      <<"UNSUPPORTED_ACCESS", 100728832>>,
      <<"WRITE_ONLY", WRITE_ONLY>>,
      <<"READ_ONLY", READ_ONLY>>,
      <<"OBJECT_UNDEFINED", OBJECT_UNDEFINED>>,
      <<"OBJECT_NOT_MAPPABLE", 100925505>>,
      <<"MAP_LENGTH", 100925506>>,
      <<"PARAMETER_INCOMPATIBILITY", 100925507>>,
      <<"DEVICE_INCOMPATIBILITY", 100925511>>,
      <<"HARDWARE_ERROR", 101056512>>,
      <<"BAD_LENGTH", BAD_LENGTH>>,
      <<"DATA_LONG", 101122066>>,
      <<"DATA_SHORT", 101122066>>,
      <<"BAD_SUB_INDEX", BAD_SUB_INDEX>>,
      <<"BAD_VALUE", 101253168>>,
      <<"VALUE_HIGH", VALUE_HIGH>>,
      <<"VALUE_LOW", VALUE_LOW>>,
      <<"RANGE_ERROR", 101253174>>,
      <<"SDO_NOT_AVAILBLE", 101318691>>,
      <<"GENERAL_ERROR", 134217728>>,
      <<"DATA_TRANSFER", 134217760>>,
      <<"LOCAL_CONTROL", 134217761>>,
      <<"DEVICE_STATE", 134217762>>,
      <<"OD_ERROR", 134217763>>,
      <<"NO_DATA", 134217764>>
    >>

\* SdoCode.name
SdoCode(name) ==
    LET i == CHOOSE i \in 1..Len(SdoCodeTable) : SdoCodeTable[i][1] = name
    IN  SdoCodeTable[i][2]

\* the cases of the switch of codeToString, in the order of the source
CodeCases ==
    <<
      <<"TOGGLE_BIT", "Toggle bit not altered">>,
      <<"TIMEOUT", "SDO protocol timed out">>,
      <<"BAD_COMMAND", "Command specifier not valid or unknown">>,
      <<"BAD_BLOCK_SIZE", "Invalid block size in block mode">>,
      <<"BAD_BLOCK_SEQUENCE", "Invalid sequence number in block mode">>,
      <<"BAD_BLOCK_CRC", "CRC error in block mode">>,
      <<"OUT_OF_MEMORY", "Out of memory">>,
      <<"UNSUPPORTED_ACCESS", "Unsupported access to an object">>,
      <<"WRITE_ONLY", "Attempt to read a write only object">>,
      <<"READ_ONLY", "Attempt to write a read only object">>,
      <<"OBJECT_UNDEFINED", "Object does not exist">>,
      <<"OBJECT_NOT_MAPPABLE", "Object cannot be mapped to the PDO">>,
      <<"MAP_LENGTH", "Number and length of object to be mapped exceeds PDO length">>,
      <<"PARAMETER_INCOMPATIBILITY", "General parameter incompatibility reasons">>,
      <<"DEVICE_INCOMPATIBILITY", "General internal incompatibility in device">>,
      <<"HARDWARE_ERROR", "Access failed due to hardware error">>,
      <<"BAD_LENGTH", "Data type does not match: length of service parameter does not match">>,
      <<"DATA_LONG", "Data type does not match: length of service parameter too high">>,
      <<"DATA_SHORT", "Data type does not match: length of service parameter too short">>,
      <<"BAD_SUB_INDEX", "Sub index does not exist">>,
      <<"BAD_VALUE", "Invalid value for download parameter">>,
      <<"VALUE_HIGH", "Value range of parameter written too high">>,
      <<"VALUE_LOW", "Value range of parameter written too low">>,
      <<"RANGE_ERROR", "Maximum value is less than minimum value">>,
      <<"SDO_NOT_AVAILBLE", "Resource not available: SDO connection">>,
      <<"GENERAL_ERROR", "General error">>,
      <<"DATA_TRANSFER", "Data cannot be transferred or stored to application">>,
      <<"LOCAL_CONTROL", "Data cannot be transferred or stored to application because of local control">>,
      <<"DEVICE_STATE", "Data cannot be transferred or stored to application because of present device state">>,
      <<"OD_ERROR", "Object dictionary not present or dynamic generation failed">>,
      <<"NO_DATA", "No data available">>
    >>

\* codeToString(code): the first case whose label equals code
codeToString(code) ==
    LET S == {i \in 1..Len(CodeCases) : SdoCode(CodeCases[i][1]) = code}
    IN  IF S = {} THEN "Unknown error" ELSE CodeCases[FirstIndex(S, 0)][2]

\* new SdoError(code, index, subIndex): the message is the text of the code
\* followed by the tag of index and subIndex
SdoError(code, index, subIndex) ==
    [name |-> "SdoError", code |-> code, message |-> <<codeToString(code), index, subIndex>>]

-----------------------------------------------------------------------------
(* class Queue *)

\* Queue.pop(): q is the Queue, run holds the item it starts, if any
Queue_pop_IgnorePending(q) ==
    IF q.queue = <<>> THEN [q |-> q, run |-> <<>>]
    ELSE [q |-> [queue |-> Tail(q.queue), pending |-> TRUE], run |-> <<Head(q.queue)>>]
Queue_pop(q) ==
    IF q.pending THEN [q |-> q, run |-> <<>>]
    ELSE IF q.queue = <<>> THEN [q |-> q, run |-> <<>>]
    ELSE [q |-> [queue |-> Tail(q.queue), pending |-> TRUE], run |-> <<Head(q.queue)>>]

-----------------------------------------------------------------------------
(* The server's object dictionary (Eds / DataObject, consumed through      *)
(* getEntry, subNumber, accessType, size, raw, highLimit, lowLimit)         *)

\* node id of the device that runs the SdoServer
ServerDeviceId == 11

\* a payload of n bytes, all different
Payload(n) == [i \in 1..n |-> 100 + i]

\* index -> [subNumber, subs]; subs: sub-index -> [accessType, limits, raw]
\*   0x2000 VAR READ_WRITE, 0x2001 VAR READ_ONLY, 0x2002 VAR WRITE_ONLY,
\*   0x2003 VAR READ_WRITE UNSIGNED8 with lowLimit 16 and highLimit 80,
\*   0x2004 RECORD with sub-entries 0 (CONSTANT) and 1 (READ_WRITE),
\*   0x2006 VAR READ_WRITE holding 10 bytes, 0x2007 VAR READ_WRITE holding no
\*   byte; 0x2005 does not exist
ObjectIndexes == {8192, 8193, 8194, 8195, 8196, 8198, 8199}
SubNumber(index) == IF index = 8196 THEN 2 ELSE 0
EntryKeys == {<<8192, 0>>, <<8193, 0>>, <<8194, 0>>, <<8195, 0>>,
              <<8196, 0>>, <<8196, 1>>, <<8198, 0>>, <<8199, 0>>}
AccessType(key) ==
    CASE key = <<8193, 0>> -> "ro"
      [] key = <<8194, 0>> -> "wo"
      [] key = <<8196, 0>> -> "const"
      [] OTHER -> "rw"
HasLimits(key) == key = <<8195, 0>>
LowLimit(key) == 16
HighLimit(key) == 80
DictInit ==
    [key \in EntryKeys |->
        CASE key = <<8192, 0>> -> <<66>>
          [] key = <<8195, 0>> -> <<32>>
          [] key = <<8196, 0>> -> <<1>>
          [] key = <<8198, 0>> -> Payload(10)
          [] key = <<8199, 0>> -> <<>>
          [] OTHER -> <<7>>]

\* eds.getEntry(index), then entry[subIndex] for a composite: the key of the
\* entry the handlers work on, or a one-element tuple naming the failure
Lookup(index, subIndex) ==
    IF index \notin ObjectIndexes THEN <<OBJECT_UNDEFINED>>
    ELSE IF SubNumber(index) > 0
         THEN IF <<index, subIndex>> \in EntryKeys THEN <<index, subIndex>>
              ELSE <<BAD_SUB_INDEX>>
         ELSE <<index, 0>>

\* entry.size
EntrySize(d, key) == Len(d[key])

\* rawToType(raw, entry.dataType) of the UNSIGNED8 entries that carry limits
RawToType(raw) == IF raw = <<>> THEN 0 ELSE raw[1]

-----------------------------------------------------------------------------
(* class SdoServer *)

\* SdoServer.clients[cobIdRx] after addClient() and init() on device ServerDeviceId
ServerCobIdRx == InitCobId(1536, ServerDeviceId)
ServerCobIdTx == InitCobId(1408, ServerDeviceId)
ServerCtxInit == NewTransfer(0, 0, 0, <<>>, 0, ServerCobIdTx)

\* what a server handler did: the context, the frames sent, the dictionary
SEff(t, out, d) == [t |-> t, out |-> out, dict |-> d]

\* client.abort(code) that leaves the context as it was
ServerAbort_KeepsContext(client, code, d) ==
    SEff(client, Transfer_abort(client, code).out, d)
ServerAbort(client, code, d) ==
    LET e == Transfer_abort(client, code) IN SEff(e.t, e.out, d)

\* a commit that does not compare the value with the limits
LimitCode_Unchecked(key, raw) == 0
\* the checks before a commit: the failure code, or 0
LimitCode(key, raw) ==
    IF HasLimits(key) /\ RawToType(raw) > HighLimit(key) THEN VALUE_HIGH
    ELSE IF HasLimits(key) /\ RawToType(raw) < LowLimit(key) THEN VALUE_LOW
    ELSE 0

WriteAccessCode(key) ==
    IF AccessType(key) \in {"const", "ro"} THEN READ_ONLY ELSE 0

\* a download ack that does not echo the index and the sub-index
DownloadAck_NoIndex(client) == <<Shl(SCS_DOWNLOAD_INITIATE, 5)>> \o Alloc(7)
DownloadAck(client) ==
    <<Shl(SCS_DOWNLOAD_INITIATE, 5)>> \o WriteUInt16LE(client.index)
    \o <<client.subIndex>> \o Alloc(4)

\* the segmented branch of SdoServer._downloadInitiate
ServerDownloadInitiateSegmented(client, d) ==
    LET c1 == [client EXCEPT !.data = <<>>, !.size = 0, !.toggle = 0]
    IN  SEff(Transfer_start(c1), <<Msg(client.cobId, DownloadAck(client))>>, d)

SdoServer_downloadInitiate(client0, data, d) ==
    LET client == [client0 EXCEPT !.index = ReadUInt16LE(data, 1), !.subIndex = data[4]]
        key == Lookup(client.index, client.subIndex)
    IN  IF BitAnd(data[1], 2) # 0
        THEN IF Len(key) = 1 THEN ServerAbort(client, key[1], d)
             ELSE IF WriteAccessCode(key) # 0 THEN ServerAbort(client, WriteAccessCode(key), d)
             ELSE LET count == IF BitAnd(data[1], 1) # 0
                               THEN 4 - BitAnd(Shr(data[1], 2), 3) ELSE 4
                      raw == BufCopy(data, Alloc(count), 0, 4, count + 4)
                  IN  IF LimitCode(key, raw) # 0 THEN ServerAbort(client, LimitCode(key, raw), d)
                      ELSE SEff(client, <<Msg(client.cobId, DownloadAck(client))>>,
                                [d EXCEPT ![key] = raw])
        ELSE ServerDownloadInitiateSegmented(client, d)

\* an expedited reply that always announces 4 bytes
UploadExpeditedHeader_NoCount(size) == BitOr(Shl(SCS_UPLOAD_INITIATE, 5), 3)
\* the command byte of the expedited reply of SdoServer._uploadInitiate
UploadExpeditedHeader(size) ==
    LET header == BitOr(Shl(SCS_UPLOAD_INITIATE, 5), BitOr(Shl(4 - size, 2), 2))
    IN  IF size < 4 THEN BitOr(header, BitOr(Shl(4 - size, 2), 1)) ELSE header

SdoServer_uploadInitiate(client0, data, d) ==
    LET client == [client0 EXCEPT !.index = ReadUInt16LE(data, 1), !.subIndex = data[4]]
        key == Lookup(client.index, client.subIndex)
        head(h) == <<h>> \o WriteUInt16LE(client.index) \o <<client.subIndex>>
    IN  IF Len(key) = 1 THEN ServerAbort(client, key[1], d)
        ELSE IF AccessType(key) = "wo" THEN ServerAbort(client, WRITE_ONLY, d)
        ELSE IF EntrySize(d, key) <= 4
        THEN LET sendBuffer == BufCopy(d[key], head(UploadExpeditedHeader(EntrySize(d, key)))
                                               \o Alloc(4), 4, 0, Len(d[key]))
             IN  SEff(client, <<Msg(client.cobId, sendBuffer)>>, d)
        ELSE LET c1 == [client EXCEPT !.data = d[key], !.size = 0, !.toggle = 0]
                 header == BitOr(Shl(SCS_UPLOAD_INITIATE, 5), 1)
                 sendBuffer == head(header) \o WriteUInt32LE(Len(c1.data))
             IN  SEff(Transfer_start(c1), <<Msg(client.cobId, sendBuffer)>>, d)

\* a server that leaves upload-segment requests unanswered
SdoServer_uploadSegment_Silent(client, data, d) == SEff(client, <<>>, d)
SdoServer_uploadSegment(client, data, d) ==
    IF ~ToggleMatches(client, data) THEN ServerAbort(client, TOGGLE_BIT, d)
    ELSE LET count == Min(7, Len(client.data) - client.size)
             body == BufCopy(client.data, Alloc(8), 1, client.size, client.size + count)
             header0 == BitOr(Shl(client.toggle, 4), Shl(7 - count, 1))
             isLast == client.size = Len(client.data)
             header == IF isLast THEN BitOr(header0, 1) ELSE header0
             c1 == IF isLast THEN Transfer_resolve(client, Undefined).t ELSE client
             c2 == [c1 EXCEPT !.toggle = BitXor1(c1.toggle), !.size = c1.size + count]
         IN  SEff(Transfer_refresh(c2), <<Msg(client.cobId, [body EXCEPT ![1] = header])>>, d)

\* SdoServer._downloadSegment, the commit of the last segment: the failure
\* code, or 0 when the entry is written
CommitCode(client, raw) ==
    LET key == Lookup(client.index, client.subIndex)
    IN  IF Len(key) = 1 THEN key[1]
        ELSE IF WriteAccessCode(key) # 0 THEN WriteAccessCode(key)
        ELSE LimitCode(key, raw)

SdoServer_downloadSegment(client0, data, d) ==
    IF ~ToggleMatches(client0, data) THEN ServerAbort(client0, TOGGLE_BIT, d)
    ELSE LET count == 7 - BitAnd(Shr(data[1], 1), 7)
             payload == Slice(data, 1, count + 1)
             size == Len(client0.data) + count
             client == [client0 EXCEPT !.data = Concat(client0.data, payload, size)]
             isLast == BitAnd(data[1], 1) # 0
             raw == BufCopy(client.data, Alloc(size), 0, 0, Len(client.data))
             header == BitOr(Shl(SCS_DOWNLOAD_SEGMENT, 5), Shl(client.toggle, 4))
             ack(c) == <<Msg(c.cobId, <<header>> \o Alloc(7))>>
         IN  IF isLast /\ CommitCode(client, raw) # 0
             THEN ServerAbort(client, CommitCode(client, raw), d)
             ELSE LET c1 == IF isLast THEN Transfer_resolve(client, Undefined).t ELSE client
                      c2 == [c1 EXCEPT !.toggle = BitXor1(c1.toggle)]
                      d1 == IF isLast
                            THEN [d EXCEPT ![Lookup(client.index, client.subIndex)] = raw]
                            ELSE d
                  IN  SEff(Transfer_refresh(c2), ack(c2), d1)

\* SdoServer._onMessage, for a message whose id has a context
\* an ABORT case that aborts in turn
ServerOnAbort_Echo(client, data, d) == ServerAbort(client, ReadUInt32LE(data, 4), d)
\* the ABORT case of SdoServer._onMessage: client.reject()
ServerOnAbort(client, data, d) == SEff(Transfer_reject(client, 0).t, <<>>, d)

SdoServer_onMessage(client, data, d) ==
    LET ccs == Shr(data[1], 5)
    IN  CASE ccs = CCS_DOWNLOAD_SEGMENT -> SdoServer_downloadSegment(client, data, d)
          [] ccs = CCS_DOWNLOAD_INITIATE -> SdoServer_downloadInitiate(client, data, d)
          [] ccs = CCS_UPLOAD_INITIATE -> SdoServer_uploadInitiate(client, data, d)
          [] ccs = CCS_UPLOAD_SEGMENT -> SdoServer_uploadSegment(client, data, d)
          [] ccs = CCS_ABORT -> ServerOnAbort(client, data, d)
          [] OTHER -> ServerAbort(client, BAD_COMMAND, d)

-----------------------------------------------------------------------------
(* State and steps *)

\* SdoClient.transfers[cobIdRx] === undefined
NoTransfer == [rid |-> 0]

Req(kind, serverId, index, subIndex, data, timeout) ==
    [kind |-> kind, serverId |-> serverId, index |-> index, subIndex |-> subIndex,
     data |-> data, timeout |-> timeout]

Observed(op, rid, rx, tx) == [op |-> op, rid |-> rid, rx |-> rx, tx |-> tx]

\* the frames out, as entries of the wire log: src sent them, for call rid
Sent(src, rid, out) == [i \in 1..Len(out) |-> [src |-> src, rid |-> rid, m |-> out[i]]]

\* a frame an arbitrary peer put on the bus; wired together, every frame was
\* logged when its sender emitted it
Heard(m) == IF mode = "closed" THEN <<>> ELSE Sent("peer", 0, <<m>>)

\* the server whose connection uses the COB-ID id
PeerOf(id) ==
    CHOOSE s \in DOMAIN servers : id \in {Servers(s).cobIdRx, Servers(s).cobIdTx}

\* the log of the connection between the client and the SdoServer
ServerWire == wire[ServerDeviceId]

PeerFrames == Cardinality({i \in 1..Len(ServerWire) : ServerWire[i].src = "peer"})

InitState ==
    /\ params = ParamsOf(ParamsNone, ServerIds)
    /\ servers = ServersInit
    /\ listeners = [client |-> 1, server |-> 1]
    /\ sync = SyncInit
    /\ calls = <<>>
    /\ queue = [s \in ServerIds |-> <<>>]
    /\ pending = [s \in ServerIds |-> FALSE]
    /\ transfers = [s \in ServerIds |-> NoTransfer]
    /\ orphans = [s \in ServerIds |-> {}]
    /\ sctx = ServerCtxInit
    /\ dict = DictInit
    /\ c2s = <<>>
    /\ s2c = <<>>
    /\ events = [s \in ServerIds |-> <<>>]
    /\ wire = [s \in ServerIds |-> <<>>]
    /\ last = Observed("init", 0, <<>>, <<>>)

\* frames put on a channel: queued behind the others when client and server
\* are wired together; an arbitrary peer has taken the earlier ones
Out(chan, out) == IF mode = "closed" THEN chan \o out ELSE out

\* the error device.send threw, as the code of the rejection
SendError == -1

\* Queue.pop() and the thunk it starts: q the Queue, cs the calls, cur the
\* entry of SdoClient.transfers, orph the replaced active Transfers. When
\* device.send throws in the thunk, the executor's promise rejects after
\* Transfer.start(), and the catch of pop() rejects the caller and pops again
RECURSIVE PopAndRun(_, _, _, _, _)
PopAndRun(q, cs, cur, orph, ev) ==
    LET p == Queue_pop(q)
    IN  IF p.run = <<>>
        THEN [q |-> p.q, calls |-> cs, cur |-> cur, orph |-> orph, out |-> <<>>, ev |-> ev]
        ELSE LET rid == p.run[1]
                 e == Thunk(rid, cs[rid].req)
                 orph1 == IF cur # NoTransfer /\ cur.active THEN orph \cup {cur} ELSE orph
             IN  IF cs[rid].throws
                 THEN PopAndRun([queue |-> p.q.queue, pending |-> FALSE],
                                [cs EXCEPT ![rid].state = "rejected", ![rid].code = SendError],
                                e.t, orph1,
                                ev \o <<(<<"start", rid>>), (<<"settle", rid>>)>>)
                 ELSE [q |-> p.q,
                       calls |-> [cs EXCEPT ![rid].state = "started"],
                       cur |-> e.t,
                       orph |-> orph1,
                       out |-> e.out,
                       ev |-> Append(ev, <<"start", rid>>)]

ClientCommit(s, r, tx0, op, rid, rx, heard) ==
    /\ calls' = r.calls
    /\ queue' = [queue EXCEPT ![s] = r.q.queue]
    /\ pending' = [pending EXCEPT ![s] = r.q.pending]
    /\ transfers' = [transfers EXCEPT ![s] = r.cur]
    /\ orphans' = [orphans EXCEPT ![s] = r.orph]
    /\ events' = [events EXCEPT ![s] = r.ev]
    /\ c2s' = Out(c2s, tx0 \o r.out)
    /\ wire' = [wire EXCEPT ![s] = @ \o heard \o Sent("client", rid, tx0)
                                     \o Sent("client", r.cur.rid, r.out)]
    /\ last' = Observed(op, rid, rx, tx0 \o r.out)

\* upload()/download() threw before anything was queued or sent
Refused(req, error) ==
    /\ last' = [op |-> req.kind, rid |-> 0, rx |-> <<>>, tx |-> <<>>, error |-> error,
                serverId |-> req.serverId]
    /\ UNCHANGED <<mode, params, servers, listeners, sync, calls, queue, pending, transfers, orphans,
                   sctx, dict, c2s, s2c, events, wire>>

\* the lookup of the server, then Queue.push(start): the call joins the queue
\* of its server, then pop(); throws tells whether device.send will throw when
\* the thunk sends its frame
Submit(req, throws) ==
    \E found \in {SdoClient_findServer(servers, req.serverId)} :
        IF found.error # NoError THEN Refused(req, found.error)
        ELSE /\ Len(calls) < MaxReq
             /\ servers' = found.table
             /\ LET rid == Len(calls) + 1
                    s == req.serverId
                    cs == Append(calls, [req |-> req, state |-> "queued", value |-> <<>>,
                                         code |-> 0, throws |-> throws])
                    q == [queue |-> Append(queue[s], rid), pending |-> pending[s]]
                IN  \E r \in {PopAndRun(q, cs, transfers[s], orphans[s], events[s])} :
                        ClientCommit(s, r, <<>>, req.kind, rid, <<>>, <<>>)
             /\ UNCHANGED <<mode, params, listeners, sync, sctx, dict, s2c>>

\* a call made while the transport works
Push(req) == Submit(req, FALSE)

\* SdoClient.upload(args)
Upload(req) == req.kind = "upload" /\ Push(req)

\* SdoClient.download(args)
Download(req) == req.kind = "download" /\ Push(req)

\* A handler or the timer acted on the Transfer of server s with effect e: the
\* promise settles once, and the then/catch of Queue.pop() runs before the
\* next message is handled
ClientApply(s, e, op, rx, heard) ==
    LET rid == e.t.rid
        settles == e.done.kind # "none" /\ calls[rid].state = "started"
        cs == IF settles
              THEN [calls EXCEPT ![rid].state = IF e.done.kind = "resolve"
                                                THEN "resolved" ELSE "rejected",
                                 ![rid].value = e.done.value,
                                 ![rid].code = e.done.code]
              ELSE calls
        q == [queue |-> queue[s], pending |-> IF settles THEN FALSE ELSE pending[s]]
    IN  \E r \in {IF settles
                   THEN PopAndRun(q, cs, e.t, orphans[s], Append(events[s], <<"settle", rid>>))
                   ELSE [q |-> q, calls |-> cs, cur |-> e.t, orph |-> orphans[s],
                         out |-> <<>>, ev |-> events[s]]} :
            ClientCommit(s, r, e.out, op, rid, rx, heard)

\* the server whose cobIdRx is the id of a message, as a set
ServerOfCobId(id) ==
    {s \in DOMAIN servers : Servers(s).cobIdRx = id /\ transfers[s] # NoTransfer}

\* emit('message', message) with n handlers of init() registered: each runs
\* _onMessage in turn on the Transfer the one before left; the promise takes
\* the first call of resolve or reject
RECURSIVE ClientDeliver(_, _, _)
ClientDeliver(t, data, n) ==
    IF n = 0 THEN Eff(t, <<>>, NoDone)
    ELSE LET e == SdoClient_onMessage(t, data)
             rest == ClientDeliver(e.t, data, n - 1)
         IN  Eff(rest.t, e.out \o rest.out, IF e.done.kind # "none" THEN e.done ELSE rest.done)

\* SdoClient._onMessage(message), once for every handler registered
ClientReceive(m) ==
    IF ServerOfCobId(m.id) = {}
    THEN /\ last' = Observed("crecv", 0, m.data, <<>>)
         /\ wire' = [wire EXCEPT ![PeerOf(m.id)] = @ \o Heard(m)]
         /\ c2s' = Out(c2s, <<>>)
         /\ UNCHANGED <<calls, queue, pending, transfers, orphans, events>>
    ELSE \E s \in ServerOfCobId(m.id) :
             \E e \in {ClientDeliver(transfers[s], m.data, listeners.client)} :
                 ClientApply(s, e, "crecv", m.data, Heard(m))

\* the client handles the message at the head of the bus
ClientOnMessage ==
    /\ mode = "closed"
    /\ s2c # <<>>
    /\ s2c' = Tail(s2c)
    /\ ClientReceive(Head(s2c))
    /\ UNCHANGED <<mode, params, servers, listeners, sync, sctx, dict>>

\* time passes for the armed timer of the Transfer of server s
Tick(s) ==
    /\ transfers[s] # NoTransfer
    /\ transfers[s].timer = "armed"
    /\ transfers[s].elapsed < transfers[s].timeout
    /\ transfers' = [transfers EXCEPT ![s].elapsed = @ + 1]
    /\ last' = Observed("tick", transfers[s].rid, <<>>, <<>>)
    /\ UNCHANGED <<mode, params, servers, listeners, sync, calls, queue, pending, orphans, sctx, dict, c2s, s2c, events, wire>>

\* the setTimeout callback of Transfer.start(): this.abort(SdoCode.TIMEOUT)
TimerFire(s) ==
    /\ transfers[s] # NoTransfer
    /\ transfers[s].timer = "armed"
    /\ transfers[s].elapsed >= transfers[s].timeout
    /\ \E e \in {Transfer_abort(transfers[s], TIMEOUT)} :
           ClientApply(s, e, "timeout", <<>>, <<>>)
    /\ UNCHANGED <<mode, params, servers, listeners, sync, sctx, dict, s2c>>

ServerApply(e, rx, heard) ==
    /\ sctx' = e.t
    /\ dict' = e.dict
    /\ s2c' = Out(s2c, e.out)
    /\ wire' = [wire EXCEPT ![ServerDeviceId] = @ \o heard \o Sent("server", 0, e.out)]
    /\ last' = Observed("srecv", 0, rx, e.out)

\* emit('message', message) with n handlers of init() registered
RECURSIVE ServerDeliver(_, _, _, _)
ServerDeliver(client, data, d, n) ==
    IF n = 0 THEN SEff(client, <<>>, d)
    ELSE LET e == SdoServer_onMessage(client, data, d)
             rest == ServerDeliver(e.t, data, e.dict, n - 1)
         IN  SEff(rest.t, e.out \o rest.out, rest.dict)

\* SdoServer._onMessage(message), once for every handler registered
ServerReceive(m) ==
    IF m.id # ServerCobIdRx
    THEN /\ last' = Observed("srecv", 0, m.data, <<>>)
         /\ wire' = [wire EXCEPT ![PeerOf(m.id)] = @ \o Heard(m)]
         /\ s2c' = Out(s2c, <<>>)
         /\ UNCHANGED <<sctx, dict>>
    ELSE \E e \in {ServerDeliver(sctx, m.data, dict, listeners.server)} :
             ServerApply(e, m.data, Heard(m))

\* the server handles the message at the head of the bus
ServerOnMessage ==
    /\ mode = "closed"
    /\ c2s # <<>>
    /\ c2s' = Tail(c2s)
    /\ ServerReceive(Head(c2s))
    /\ UNCHANGED <<mode, params, servers, listeners, sync, calls, queue, pending, transfers, orphans, events>>

-----------------------------------------------------------------------------
(* Client and server wired together, with timers *)

\* a server that answers and one that never does; timers armed and not
TimedRequests ==
    {Req("upload", s, 8192, 0, <<>>, TimerTicks) : s \in ServerIds}
    \cup {Req("upload", ServerDeviceId, 8198, 0, <<>>, 0)}
    \cup {Req("download", ServerDeviceId, 8192, 0, Payload(8), TimerTicks)}
    \cup {Req("download", s, 8192, 0, Payload(2), TimerTicks) : s \in ServerIds \ {ServerDeviceId}}

Init == mode = "closed" /\ InitState

Next ==
    \/ \E req \in TimedRequests : Upload(req)
    \/ \E req \in TimedRequests : Download(req)
    \/ ClientOnMessage
    \/ ServerOnMessage
    \/ \E s \in ServerIds : Tick(s)
    \/ \E s \in ServerIds : TimerFire(s)

Spec == Init /\ [][Next]_vars

-----------------------------------------------------------------------------
(* One side facing an arbitrary peer: the SdoClient receives whatever a     *)
(* server may send, the SdoServer whatever a client may send                *)

\* initiate frame: command byte, index, sub-index, four bytes
Frame(b0, index, subIndex, tail) == <<b0>> \o WriteUInt16LE(index) \o <<subIndex>> \o tail

\* an abort code that is not in SdoCode: 0x12345678
UnknownCode == 305419896

\* frames of a server: upload replies (expedited, segmented of 10 bytes),
\* upload segments, download acks, aborts
PeerServerFrames ==
    {Frame(79, 8192, 0, <<66, 0, 0, 0>>),
     Frame(65, 8192, 0, WriteUInt32LE(10)),
     Frame(64, 8192, 0, Alloc(4)),
     <<0>> \o Payload(7),
     <<16>> \o Payload(7),
     <<9>> \o Payload(3) \o Alloc(4),
     <<25>> \o Payload(3) \o Alloc(4),
     Frame(96, 8192, 0, Alloc(4)),
     <<32>> \o Alloc(7),
     <<48>> \o Alloc(7),
     Frame(128, 8192, 0, WriteUInt32LE(READ_ONLY)),
     Frame(128, 8192, 0, WriteUInt32LE(UnknownCode))}

\* targets of the frames of a client: READ_WRITE, READ_ONLY, missing object,
\* missing sub-index, CONSTANT, READ_WRITE with limits
PeerTargets == {<<8192, 0>>, <<8193, 0>>, <<8197, 0>>, <<8196, 2>>, <<8196, 0>>,
                <<8195, 0>>}

\* frames of a client: download initiates (segmented announcing 10 bytes,
\* expedited of 1 byte, below and within the limits of 0x2003), download
\* segments (the first byte above the limits), upload initiate of the 10-byte
\* entry, upload-segment requests, abort
PeerClientFrames ==
    {Frame(33, k[1], k[2], WriteUInt32LE(10)) : k \in PeerTargets}
    \cup {Frame(47, k[1], k[2], <<9, 0, 0, 0>>) : k \in PeerTargets}
    \cup {Frame(47, 8195, 0, <<48, 0, 0, 0>>)}
    \cup {<<0>> \o Payload(7), <<16>> \o Payload(7),
          <<9>> \o Payload(3) \o Alloc(4), <<25>> \o Payload(3) \o Alloc(4),
          Frame(64, 8198, 0, Alloc(4)),
          <<96>> \o Alloc(7), <<112>> \o Alloc(7),
          Frame(128, 8192, 0, WriteUInt32LE(TIMEOUT))}

PeerRequests ==
    {Req("upload", ServerDeviceId, 8192, 0, <<>>, 0),
     Req("download", ServerDeviceId, 8192, 0, Payload(8), 0)}

\* a frame arrives at the SdoClient on the cobIdRx of the server
PeerToClient(data) ==
    /\ mode = "client"
    /\ PeerFrames < MaxPeerFrames
    /\ ClientReceive(Msg(Servers(ServerDeviceId).cobIdRx, data))
    /\ UNCHANGED <<mode, params, servers, listeners, sync, sctx, dict, s2c>>

\* a frame arrives at the SdoServer on its cobIdRx
PeerToServer(data) ==
    /\ mode = "server"
    /\ PeerFrames < MaxPeerFrames
    /\ ServerReceive(Msg(ServerCobIdRx, data))
    /\ UNCHANGED <<mode, params, servers, listeners, sync, calls, queue, pending, transfers, orphans, events, c2s>>

InitPeer == mode \in {"client", "server"} /\ InitState

NextPeer ==
    \/ mode = "client" /\ \E req \in PeerRequests : Upload(req)
    \/ mode = "client" /\ \E req \in PeerRequests : Download(req)
    \/ \E data \in PeerServerFrames : PeerToClient(data)
    \/ \E data \in PeerClientFrames : PeerToServer(data)

SpecPeer == InitPeer /\ [][NextPeer]_vars

-----------------------------------------------------------------------------
(* Properties *)

Settled(rid) == calls[rid].state \in {"resolved", "rejected"}
CurrentTransfers(s) == IF transfers[s] = NoTransfer THEN {} ELSE {transfers[s]}

\* C1 FIFO per server: no transfer to a server is started (its initiate frame
\* emitted) or settled before every transfer submitted earlier to the same
\* server has settled.
C1_Fifo ==
    \A s \in ServerIds :
        /\ \A j \in 1..Len(events[s]) :
               \A a \in 1..Len(calls) :
                   (calls[a].req.serverId = s /\ a < events[s][j][2])
                   => \E i \in 1..(j - 1) : events[s][i] = <<"settle", a>>
        /\ \A b \in 1..Len(calls) :
               (calls[b].req.serverId = s /\ calls[b].state # "queued")
               => \A a \in 1..(b - 1) : calls[a].req.serverId = s => Settled(a)

\* two transfers to the same server have both settled
C1_Witness ==
    \E s \in ServerIds :
        \E a, b \in 1..Len(calls) :
            /\ a < b
            /\ calls[a].req.serverId = s /\ calls[b].req.serverId = s
            /\ Settled(a) /\ Settled(b)

\* C2 At-most-one: for each server at most one of the Transfer objects created
\* for it is active.
C2_AtMostOneActive ==
    \A s \in ServerIds :
        Cardinality({t \in orphans[s] \cup CurrentTransfers(s) : t.active}) <= 1

\* the Transfer of a second call to a server is active
C2_Witness ==
    \E s \in ServerIds :
        /\ transfers[s] # NoTransfer
        /\ transfers[s].active
        /\ transfers[s].rid > 1
        /\ calls[1].req.serverId = s

-----------------------------------------------------------------------------
(* Timers run: time passes and an expired timer fires, while frames may be *)
(* delayed for ever                                                         *)

Fairness == \A s \in ServerIds : WF_vars(Tick(s)) /\ WF_vars(TimerFire(s))

SpecLive == Init /\ [][Next]_vars /\ Fairness

IsAbortFrame(m) == Shr(m.data[1], 5) = 4
AbortsIn(tx) == {i \in 1..Len(tx) : IsAbortFrame(tx[i])}

\* the last step was the timer of call rid expiring
TimedOut(rid) == last.op = "timeout" /\ last.rid = rid

\* the last step handled a frame that made the transfer of call rid progress:
\* the transfer is still active and has sent its next request or segment
Progressed(rid) ==
    /\ last.op = "crecv" /\ last.rid = rid
    /\ transfers[calls[rid].req.serverId].rid = rid
    /\ transfers[calls[rid].req.serverId].active
    /\ last.tx # <<>>

\* what must hold right after the timer of call rid fired, and right after a
\* frame made its transfer progress
C6_Safety(rid) ==
    /\ TimedOut(rid) =>
           /\ calls[rid].state = "rejected"
           /\ calls[rid].code = TIMEOUT
           /\ Cardinality(AbortsIn(last.tx)) = 1
           /\ last.tx[1] = Msg(Servers(calls[rid].req.serverId).cobIdTx,
                               <<128>> \o WriteUInt16LE(calls[rid].req.index)
                               \o <<calls[rid].req.subIndex, 0, 0, 4, 5>>)
    /\ (rid <= Len(calls) /\ Progressed(rid) /\ calls[rid].req.timeout # 0) =>
           /\ transfers[calls[rid].req.serverId].timer = "armed"
           /\ transfers[calls[rid].req.serverId].elapsed = 0

AwaitsTimeout == {rid \in 1..Len(calls) : calls[rid].state = "started" /\ calls[rid].req.timeout # 0}

\* C6 Client timeout: a started transfer with a non-zero timeout settles even
\* if no frame ever arrives; when its timer fires the client emits exactly one
\* abort frame, 80 idx sub 00 00 04 05 on cobIdTx, and the promise is rejected
\* with TIMEOUT; every frame that makes the transfer progress restarts the timer.
C6_ClientTimeout ==
    /\ [](\A rid \in 1..MaxReq : C6_Safety(rid))
    /\ \A rid \in 1..MaxReq : (rid \in AwaitsTimeout) ~> (rid \notin AwaitsTimeout)

\* a segmented transfer progressed (its timer restarted) and timed out later
C6_Witness ==
    \E rid \in 1..Len(calls) :
        /\ TimedOut(rid)
        /\ calls[rid].code = TIMEOUT
        /\ \E i \in 1..Len(c2s) : Shr(c2s[i].data[1], 5) \in {CCS_UPLOAD_SEGMENT, CCS_DOWNLOAD_SEGMENT}

-----------------------------------------------------------------------------
(* Client and server wired together over a lossless in-order channel, no   *)
(* timer: downloads of every length, uploads, and the dictionary errors     *)

LosslessRequests ==
    {Req("download", ServerDeviceId, 8192, 0, Payload(n), 0) : n \in 0..MaxLen}
    \cup {Req("upload", ServerDeviceId, i, 0, <<>>, 0) : i \in {8192, 8194, 8197, 8198, 8199}}
    \cup {Req("upload", ServerDeviceId, 8196, 2, <<>>, 0)}
    \cup {Req("download", ServerDeviceId, i, 0, <<1>>, 0) : i \in {8193, 8197}}
    \cup {Req("download", ServerDeviceId, 8196, 2, <<1>>, 0)}
    \cup {Req("download", ServerDeviceId, 8193, 0, Payload(8), 0)}
    \cup {Req("download", ServerDeviceId, 8195, 0, <<v>>, 0) : v \in {8, 48, 96}}
    \cup {Req("download", ServerDeviceId, 8194, 0, Payload(10), 0)}

NextLossless ==
    \/ \E req \in LosslessRequests : Upload(req)
    \/ \E req \in LosslessRequests : Download(req)
    \/ ClientOnMessage
    \/ ServerOnMessage

SpecLossless == Init /\ [][NextLossless]_vars

\* the target of call rid
KeyOf(rid) == <<calls[rid].req.index, calls[rid].req.subIndex>>

Resolved_(rid) == calls[rid].state = "resolved"

\* upload b reads what download a wrote: both resolved, same entry, no other
\* download to that entry submitted between them
ReadsBack(a, b) ==
    /\ a < b
    /\ calls[a].req.kind = "download" /\ calls[b].req.kind = "upload"
    /\ KeyOf(a) = KeyOf(b)
    /\ Lookup(KeyOf(a)[1], KeyOf(a)[2]) = KeyOf(a)
    /\ AccessType(KeyOf(a)) = "rw"
    /\ Resolved_(a) /\ Resolved_(b)
    /\ \A c \in (a + 1)..(b - 1) : ~(calls[c].req.kind = "download" /\ KeyOf(c) = KeyOf(a))

\* C3 Round-trip: a successful download of any payload of 0..MaxLen bytes to
\* a READ_WRITE entry followed by an upload of the same index/sub-index
\* resolves with exactly the bytes that were downloaded.
C3_RoundTrip ==
    \A a, b \in 1..Len(calls) :
        ReadsBack(a, b) => calls[b].value = calls[a].req.data

\* the round trip of every payload of at least one byte
C3_RoundTripNonEmpty ==
    \A a, b \in 1..Len(calls) :
        (ReadsBack(a, b) /\ calls[a].req.data # <<>>) => calls[b].value = calls[a].req.data

\* a payload of two full segments was downloaded and read back
C3_Witness ==
    \E a, b \in 1..Len(calls) :
        /\ ReadsBack(a, b)
        /\ Len(calls[a].req.data) = 14
        /\ calls[b].value = calls[a].req.data

-----------------------------------------------------------------------------
(* Reading the wire log of the connection to the SdoServer *)

Cs(e) == Shr(e.m.data[1], 5)
ToggleOf(e) == BitAnd(Shr(e.m.data[1], 4), 1)
CodeOf(e) == ReadUInt32LE(e.m.data, 4)

\* the part of the log that belongs to call rid: from its initiate frame up
\* to the initiate frame of the next call
Span(rid) ==
    {i \in 1..Len(ServerWire) :
        /\ \E j \in 1..i : ServerWire[j].src = "client" /\ ServerWire[j].rid = rid
        /\ \A j \in 1..i : ServerWire[j].src = "client" => ServerWire[j].rid <= rid}

\* the client's upload-segment requests and the server's upload segments of call rid
ClientUploadSegs(rid) ==
    {i \in Span(rid) : ServerWire[i].src = "client" /\ Cs(ServerWire[i]) = CCS_UPLOAD_SEGMENT}
ServerUploadSegs(rid) ==
    {i \in Span(rid) : ServerWire[i].src = "server" /\ Cs(ServerWire[i]) = SCS_UPLOAD_SEGMENT}

\* the frames at the positions S carry toggle bits first, 1 - first, first, ...
Alternates(S, first) ==
    /\ \A i \in S : (\A k \in S : k >= i) => ToggleOf(ServerWire[i]) = first
    /\ \A i, j \in S :
           (i < j /\ \A k \in S : ~(i < k /\ k < j))
           => ToggleOf(ServerWire[j]) # ToggleOf(ServerWire[i])

SuccessfulUpload(rid) == calls[rid].req.kind = "upload" /\ Resolved_(rid)

\* C4 Toggle correctness, as the code has it: in any successful segmented
\* upload the toggle bits of the client's upload-segment requests alternate
\* and start from 0 in the first post-initiate request, and the toggle bits of
\* the server's upload segments alternate and start from 0.
C4_Toggle ==
    \A rid \in 1..Len(calls) :
        SuccessfulUpload(rid) =>
            /\ Alternates(ClientUploadSegs(rid), 0)
            /\ Alternates(ServerUploadSegs(rid), 0)

\* C4 as stated: the client's upload-segment requests start from toggle 1,
\* the server's upload segments from toggle 0, both alternating.
C4_ToggleClientFromOne ==
    \A rid \in 1..Len(calls) :
        SuccessfulUpload(rid) =>
            /\ Alternates(ClientUploadSegs(rid), 1)
            /\ Alternates(ServerUploadSegs(rid), 0)

\* a segmented upload of three segments resolved
C4_Witness ==
    \E rid \in 1..Len(calls) :
        /\ SuccessfulUpload(rid)
        /\ Cardinality(ClientUploadSegs(rid)) >= 3
        /\ Cardinality(ServerUploadSegs(rid)) >= 3

-----------------------------------------------------------------------------
(* Dictionary errors *)

DictCodes == {OBJECT_UNDEFINED, BAD_SUB_INDEX, READ_ONLY, WRITE_ONLY, VALUE_HIGH, VALUE_LOW}

\* the dictionary error a request must meet, or 0: the object or sub-index is
\* missing, the access type forbids the direction, the value is out of limits
ExpectedCode(req) ==
    LET key == Lookup(req.index, req.subIndex)
    IN  IF Len(key) = 1 THEN key[1]
        ELSE IF req.kind = "upload"
             THEN IF AccessType(key) = "wo" THEN WRITE_ONLY ELSE 0
             ELSE IF AccessType(key) \in {"const", "ro"} THEN READ_ONLY
                  ELSE IF HasLimits(key) /\ req.data[1] > HighLimit(key) THEN VALUE_HIGH
                  ELSE IF HasLimits(key) /\ req.data[1] < LowLimit(key) THEN VALUE_LOW
                  ELSE 0

\* the abort frames the server sent while serving call rid
ServerAborts(rid) ==
    {i \in Span(rid) : ServerWire[i].src = "server" /\ Cs(ServerWire[i]) = SCS_ABORT}

\* C10 Dictionary errors end to end: when the server detects OBJECT_UNDEFINED,
\* BAD_SUB_INDEX, READ_ONLY, WRITE_ONLY, VALUE_HIGH or VALUE_LOW it emits
\* exactly one abort frame carrying that code, its context is not active
\* afterwards, and the client's future of that transfer rejects with the same
\* code.
C10_DictionaryErrors ==
    /\ (last.op = "srecv" /\ \E i \in 1..Len(last.tx) :
            /\ IsAbortFrame(last.tx[i])
            /\ ReadUInt32LE(last.tx[i].data, 4) \in DictCodes)
       => /\ Len(last.tx) = 1
          /\ ~sctx.active
          /\ \E c \in DictCodes : last.tx[1] = Msg(ServerCobIdTx, AbortFrame(sctx, c))
    /\ \A rid \in 1..Len(calls) :
           ExpectedCode(calls[rid].req) # 0 =>
               /\ Cardinality(ServerAborts(rid)) <= 1
               /\ \A i \in ServerAborts(rid) :
                      ServerWire[i].m = Msg(ServerCobIdTx,
                          <<128>> \o WriteUInt16LE(calls[rid].req.index)
                          \o <<calls[rid].req.subIndex>>
                          \o WriteUInt32LE(ExpectedCode(calls[rid].req)))
               /\ ~Resolved_(rid)
               /\ Settled(rid) =>
                      /\ calls[rid].code = ExpectedCode(calls[rid].req)
                      /\ Cardinality(ServerAborts(rid)) = 1

\* a segmented download to a READ_ONLY entry was refused at its last segment,
\* and the client's future rejected with READ_ONLY
C10_Witness ==
    \E rid \in 1..Len(calls) :
        /\ Len(calls[rid].req.data) > 4
        /\ ExpectedCode(calls[rid].req) = READ_ONLY
        /\ calls[rid].state = "rejected"
        /\ calls[rid].code = READ_ONLY
        /\ Cardinality(ServerAborts(rid)) = 1
        /\ ~sctx.active

-----------------------------------------------------------------------------
(* The SdoServer facing an arbitrary client *)

\* positions of the frames the peer sent
PeerIdx == {i \in 1..Len(ServerWire) : ServerWire[i].src = "peer"}

\* the last initiate frame the peer sent, 0 if none
LastInitiate ==
    LET S == {i \in PeerIdx : Cs(ServerWire[i]) \in {CCS_DOWNLOAD_INITIATE, CCS_UPLOAD_INITIATE}}
    IN  IF S = {} THEN 0 ELSE CHOOSE i \in S : \A j \in S : j <= i

\* positions of the frames the peer sent after its last initiate frame
SincePeerInitiate == {i \in PeerIdx : i > LastInitiate}

PayloadLen(e) == 7 - BitAnd(Shr(e.m.data[1], 1), 7)
IsLastSegment(e) == BitAnd(e.m.data[1], 1) = 1

RECURSIVE SumPayload(_)
SumPayload(S) ==
    IF S = {} THEN 0
    ELSE LET i == CHOOSE i \in S : TRUE
         IN  PayloadLen(ServerWire[i]) + SumPayload(S \ {i})

\* the peer has sent a segmented download initiate that announces its size
\* for a writable entry, then download segments with alternating toggle bits
\* from 0, the last of them, just handled, with c = 1
SegmentedDownloadEnds ==
    /\ mode = "server" /\ last.op = "srecv"
    /\ LastInitiate # 0
    /\ Cs(ServerWire[LastInitiate]) = CCS_DOWNLOAD_INITIATE
    /\ BitAnd(ServerWire[LastInitiate].m.data[1], 3) = 1
    /\ LET d == ServerWire[LastInitiate].m.data
           key == Lookup(ReadUInt16LE(d, 1), d[4])
       IN  Len(key) = 2 /\ AccessType(key) \in {"rw", "wo"} /\ ~HasLimits(key)
    /\ SincePeerInitiate # {}
    /\ \A i \in SincePeerInitiate :
           /\ Cs(ServerWire[i]) = CCS_DOWNLOAD_SEGMENT
           /\ IsLastSegment(ServerWire[i]) <=> (\A j \in SincePeerInitiate : j <= i)
    /\ Alternates(SincePeerInitiate, 0)

DeclaredSize == ReadUInt32LE(ServerWire[LastInitiate].m.data, 4)
ReceivedSize == SumPayload(SincePeerInitiate)

ServerAbortFrame(index, subIndex, code) ==
    Msg(ServerCobIdTx, Frame(128, index, subIndex, WriteUInt32LE(code)))

\* C5 Size agreement: when a segmented download-initiate advertises total
\* size S, the server commits and acknowledges the last segment only if the
\* received segment payload lengths sum to S; otherwise it answers with an
\* abort frame carrying BAD_LENGTH and the entry is not modified.
C5_SizeAgreement ==
    [][(SegmentedDownloadEnds' /\ ReceivedSize' # DeclaredSize')
       => /\ last'.tx = <<ServerAbortFrame(sctx'.index, sctx'.subIndex, BAD_LENGTH)>>
          /\ dict' = dict]_vars

\* the code a DOWNLOAD_INITIATE for index/subIndex must be refused with, or 0
InitiateRefusal(index, subIndex) ==
    LET key == Lookup(index, subIndex)
    IN  IF Len(key) = 1 THEN key[1]
        ELSE IF AccessType(key) \in {"const", "ro"} THEN READ_ONLY
        ELSE 0

\* the last step handled a DOWNLOAD_INITIATE frame that must be refused
RefusedInitiate(expedited) ==
    /\ mode = "server" /\ last.op = "srecv"
    /\ Shr(last.rx[1], 5) = CCS_DOWNLOAD_INITIATE
    /\ (BitAnd(last.rx[1], 2) # 0) = expedited
    /\ InitiateRefusal(ReadUInt16LE(last.rx, 1), last.rx[4]) # 0

IsRefused ==
    last.tx = <<ServerAbortFrame(ReadUInt16LE(last.rx, 1), last.rx[4],
                                 InitiateRefusal(ReadUInt16LE(last.rx, 1), last.rx[4]))>>

\* C9 Download-initiate access check: for every DOWNLOAD_INITIATE frame,
\* expedited or segmented, a missing object is answered with abort
\* OBJECT_UNDEFINED, a missing sub-index with BAD_SUB_INDEX, a CONSTANT or
\* READ_ONLY entry with READ_ONLY, and no download-initiate ack is sent.
C9_InitiateAccessCheck ==
    \A expedited \in BOOLEAN : RefusedInitiate(expedited) => IsRefused

\* the access check of the expedited DOWNLOAD_INITIATE frames alone
C9_ExpeditedAccessCheck == RefusedInitiate(TRUE) => IsRefused

-----------------------------------------------------------------------------
(* Aborts: the peer's and the toggle check's *)

\* C8 Peer abort: in any state of an active client transfer, an ABORT frame
\* on its cobIdRx rejects the transfer's future with the 32-bit little-endian
\* code in bytes 4..7 of the frame, whether SdoCode has that code or not.
C8_PeerAbort ==
    [][\A s \in ServerIds :
          (/\ transfers[s] # NoTransfer
           /\ transfers[s].active
           /\ last'.op = "crecv" /\ last'.rid = transfers[s].rid
           /\ Shr(last'.rx[1], 5) = SCS_ABORT)
          => /\ calls'[transfers[s].rid].state = "rejected"
             /\ calls'[transfers[s].rid].code = ReadUInt32LE(last'.rx, 4)]_vars

\* the segment frames the client sent for call rid
ClientSegs(rid) ==
    {i \in 1..Len(ServerWire) :
        /\ ServerWire[i].src = "client" /\ ServerWire[i].rid = rid
        /\ Cs(ServerWire[i]) \in {CCS_DOWNLOAD_SEGMENT, CCS_UPLOAD_SEGMENT}}

\* a segmented upload was aborted by the peer with a code SdoCode does not have
C8_Witness ==
    \E rid \in 1..Len(calls) :
        /\ mode = "client" /\ last.op = "crecv" /\ last.rid = rid
        /\ Shr(last.rx[1], 5) = SCS_ABORT
        /\ ClientSegs(rid) # {}
        /\ calls[rid].state = "rejected"
        /\ calls[rid].code = UnknownCode

ToggleAbort(cobId, index, subIndex) ==
    Msg(cobId, Frame(128, index, subIndex, WriteUInt32LE(TOGGLE_BIT)))

\* this step, the Transfer of server s, active and past its initiate, gets a
\* segment or segment ack of its direction with the wrong toggle bit
ClientToggleStep(s) ==
    /\ transfers[s] # NoTransfer
    /\ transfers[s].active
    /\ ClientSegs(transfers[s].rid) # {}
    /\ last'.op = "crecv" /\ last'.rid = transfers[s].rid
    /\ \/ /\ calls[transfers[s].rid].req.kind = "upload"
          /\ Shr(last'.rx[1], 5) = SCS_UPLOAD_SEGMENT
       \/ /\ calls[transfers[s].rid].req.kind = "download"
          /\ Shr(last'.rx[1], 5) = SCS_DOWNLOAD_SEGMENT
    /\ BitAnd(Shr(last'.rx[1], 4), 1) # transfers[s].toggle

\* the client answers with the abort frame alone (the next call may start)
\* and the future rejects with TOGGLE_BIT
ClientToggleAnswer(s) ==
    /\ last'.tx # <<>>
    /\ last'.tx[1] = ToggleAbort(Servers(s).cobIdTx, transfers[s].index, transfers[s].subIndex)
    /\ \A i \in 2..Len(last'.tx) :
           Shr(last'.tx[i].data[1], 5) \in {CCS_DOWNLOAD_INITIATE, CCS_UPLOAD_INITIATE}
    /\ calls'[transfers[s].rid].state = "rejected"
    /\ calls'[transfers[s].rid].code = TOGGLE_BIT

\* call rid, past its initiate, ended with the client's own toggle abort
ClientToggleAborted(rid) ==
    /\ calls[rid].state = "rejected" /\ calls[rid].code = TOGGLE_BIT
    /\ \E i \in 2..Len(ServerWire) :
           /\ ServerWire[i].src = "client" /\ ServerWire[i].rid = rid
           /\ Cs(ServerWire[i]) = CCS_ABORT /\ CodeOf(ServerWire[i]) = TOGGLE_BIT
           /\ ServerWire[i - 1].src = "peer"
           /\ Cs(ServerWire[i - 1]) \in {SCS_UPLOAD_SEGMENT, SCS_DOWNLOAD_SEGMENT}
           /\ \E k \in ClientSegs(rid) : k < i

\* direction of the last initiate frame the server got
ServerDirection == IF LastInitiate = 0 THEN 0 ELSE Cs(ServerWire[LastInitiate])

SegmentOfDirection(b0) ==
    \/ ServerDirection = CCS_DOWNLOAD_INITIATE /\ Shr(b0, 5) = CCS_DOWNLOAD_SEGMENT
    \/ ServerDirection = CCS_UPLOAD_INITIATE /\ Shr(b0, 5) = CCS_UPLOAD_SEGMENT

\* this step, the server's context, active, gets a segment of its direction
\* with the wrong toggle bit
ServerToggleStep ==
    /\ mode = "server"
    /\ sctx.active
    /\ last'.op = "srecv"
    /\ SegmentOfDirection(last'.rx[1])
    /\ BitAnd(Shr(last'.rx[1], 4), 1) # sctx.toggle

ServerToggleAnswer ==
    /\ last'.tx = <<ToggleAbort(ServerCobIdTx, sctx.index, sctx.subIndex)>>
    /\ ~sctx'.active
    /\ dict' = dict

\* the server answered the last initiate frame by entering a segmented transfer
ServerSegmented ==
    /\ LastInitiate # 0 /\ LastInitiate < Len(ServerWire)
    /\ ServerWire[LastInitiate + 1].src = "server"
    /\ \/ /\ ServerDirection = CCS_DOWNLOAD_INITIATE
          /\ BitAnd(ServerWire[LastInitiate].m.data[1], 2) = 0
          /\ Cs(ServerWire[LastInitiate + 1]) = SCS_DOWNLOAD_INITIATE
       \/ /\ ServerDirection = CCS_UPLOAD_INITIATE
          /\ Cs(ServerWire[LastInitiate + 1]) = SCS_UPLOAD_INITIATE
          /\ BitAnd(ServerWire[LastInitiate + 1].m.data[1], 2) = 0

\* between the initiate and position i the transfer went on: segments of its
\* direction only, none the last, no abort
ServerActiveUntil(i) ==
    \A j \in (LastInitiate + 2)..(i - 1) :
        IF ServerWire[j].src = "peer"
        THEN /\ SegmentOfDirection(ServerWire[j].m.data[1])
             /\ ServerDirection = CCS_DOWNLOAD_INITIATE => ~IsLastSegment(ServerWire[j])
        ELSE /\ Cs(ServerWire[j]) # SCS_ABORT
             /\ ServerDirection = CCS_UPLOAD_INITIATE => ~IsLastSegment(ServerWire[j])

\* the server's segmented transfer ended with its own toggle abort, and no
\* initiate frame came since
ServerToggleAborted ==
    /\ mode = "server"
    /\ ServerSegmented
    /\ \E i \in (LastInitiate + 2)..Len(ServerWire) :
           /\ ServerWire[i].src = "server"
           /\ Cs(ServerWire[i]) = SCS_ABORT /\ CodeOf(ServerWire[i]) = TOGGLE_BIT
           /\ ServerActiveUntil(i)

\* the immediate reaction to a wrong toggle bit, client and server
C7_Reaction ==
    /\ \A s \in ServerIds : ClientToggleStep(s) => ClientToggleAnswer(s)
    /\ ServerToggleStep => ServerToggleAnswer

\* after the toggle abort: no further segment of the transfer, no entry modified
C7_Afterwards ==
    /\ \A rid \in 1..Len(calls) : ClientToggleAborted(rid) => ClientSegs(rid)' = ClientSegs(rid)
    /\ (ServerToggleAborted /\ last'.op = "srecv" /\ SegmentOfDirection(last'.rx[1]))
       => /\ dict' = dict
          /\ \A i \in 1..Len(last'.tx) : Shr(last'.tx[i].data[1], 5) # SCS_UPLOAD_SEGMENT

\* C7 Toggle violation: an active segmented transfer (client upload, client
\* download, server upload, server download) that receives a segment or
\* segment ack with the wrong toggle bit emits the abort frame
\* 80 idxLo idxHi sub 00 00 03 05, ends rejected with TOGGLE_BIT, emits no
\* further segment of that transfer and modifies no entry.
C7_ToggleViolation == [][C7_Reaction /\ C7_Afterwards]_vars

-----------------------------------------------------------------------------
(* Commits of the server *)

\* the entries whose raw bytes the step changes
Changed == {k \in EntryKeys : dict'[k] # dict[k]}

\* the object and the sub-index exist, the entry may be written and the value
\* raw is within its limits
Verified(index, subIndex, raw) ==
    LET key == Lookup(index, subIndex)
    IN  /\ Len(key) = 2
        /\ AccessType(key) \notin {"const", "ro"}
        /\ HasLimits(key) => /\ RawToType(raw) <= HighLimit(key)
                             /\ RawToType(raw) >= LowLimit(key)

\* the step writes raw bytes to the entry index/subIndex, and to no other
CommitsTo(index, subIndex) ==
    /\ Changed = {Lookup(index, subIndex)}
    /\ Verified(index, subIndex, dict'[Lookup(index, subIndex)])

\* the step is the server handling a frame
ServerStep == last'.op = "srecv" /\ last' # last

ServerEmitsAbort == \E i \in 1..Len(last'.tx) : last'.tx[i].data[1] = 128

NonFinalSegment ==
    /\ Shr(last'.rx[1], 5) = CCS_DOWNLOAD_SEGMENT
    /\ BitAnd(last'.rx[1], 1) = 0

\* C11 Commit only after verification: the server modifies an entry's raw
\* bytes only in the step that handles an expedited DOWNLOAD_INITIATE or a last
\* (c=1) DOWNLOAD_SEGMENT, and only after the object and sub-index exist, the
\* access type is neither CONSTANT nor READ_ONLY and the value is within
\* high_limit/low_limit; in every step in which the server emits an abort
\* frame, and on every non-final segment, all dictionary entries are left
\* unchanged.
C11_CommitAfterVerification ==
    [][/\ dict' # dict =>
              /\ ServerStep
              /\ \/ /\ Shr(last'.rx[1], 5) = CCS_DOWNLOAD_INITIATE
                    /\ BitAnd(last'.rx[1], 2) # 0
                    /\ CommitsTo(ReadUInt16LE(last'.rx, 1), last'.rx[4])
                 \/ /\ Shr(last'.rx[1], 5) = CCS_DOWNLOAD_SEGMENT
                    /\ BitAnd(last'.rx[1], 1) = 1
                    /\ CommitsTo(sctx.index, sctx.subIndex)
       /\ (ServerStep /\ (ServerEmitsAbort \/ NonFinalSegment)) => dict' = dict]_vars

\* the server has committed the ten bytes of a segmented download at its last
\* segment
C11_Witness ==
    /\ mode = "server" /\ last.op = "srecv"
    /\ Shr(last.rx[1], 5) = CCS_DOWNLOAD_SEGMENT /\ BitAnd(last.rx[1], 1) = 1
    /\ Len(last.tx) = 1 /\ last.tx[1].data[1] = 48
    /\ dict[<<8192, 0>>] = Payload(7) \o Payload(3)

\* the server has refused the last segment of a download whose value is above
\* the limits of the entry
C11_WitnessRefused ==
    /\ mode = "server" /\ last.op = "srecv"
    /\ Shr(last.rx[1], 5) = CCS_DOWNLOAD_SEGMENT /\ BitAnd(last.rx[1], 1) = 1
    /\ last.tx = <<ServerAbortFrame(8195, 0, VALUE_HIGH)>>

-----------------------------------------------------------------------------
(* Frames that arrive at the client after its transfer has settled *)

\* the transfer of server s has resolved or rejected, and no other transfer to
\* s has started since
SettledTransfer(s) ==
    /\ transfers[s] # NoTransfer
    /\ ~transfers[s].active
    /\ Settled(transfers[s].rid)

\* the step is the client handling a frame on the cobIdRx of the SdoServer
ClientHandlesFrame == last'.op = "crecv" /\ (wire' # wire \/ s2c' # s2c)

LateFrame(scs) ==
    /\ SettledTransfer(ServerDeviceId)
    /\ ClientHandlesFrame
    /\ Shr(last'.rx[1], 5) \in scs

Dropped ==
    /\ last'.tx = <<>>
    /\ transfers'[ServerDeviceId] = transfers[ServerDeviceId]
    /\ calls' = calls

\* C12 Late frames are dropped by the client: after a client transfer has
\* resolved or rejected (including by timeout) and before another transfer to
\* the same server has started, any inbound frame on that server's cob_id_rx,
\* whatever its command specifier (initiate reply, segment, ack, abort,
\* unknown), causes no outbound frame and no change to the transfer's state.
C12_LateFramesDropped == [][LateFrame(0..7) => Dropped]_vars

\* the part that holds: late segments and segment acks are dropped
C12_LateSegmentsDropped ==
    [][LateFrame({SCS_UPLOAD_SEGMENT, SCS_DOWNLOAD_SEGMENT}) => Dropped]_vars

-----------------------------------------------------------------------------
(* The initiate frame of a download *)

Started(rid) == calls[rid].state # "queued"

\* the first frame the client sent for call rid
InitiateOf(rid) ==
    LET i == CHOOSE i \in Span(rid) : \A j \in Span(rid) : i <= j
    IN  ServerWire[i].m.data

\* e = 1, s = 1, n = 4 - length in bits 3..2, payload in bytes 4..7
ExpeditedInitiate(data, payload) ==
    /\ Shr(data[1], 5) = CCS_DOWNLOAD_INITIATE
    /\ BitAnd(data[1], 2) # 0
    /\ BitAnd(data[1], 1) # 0
    /\ BitAnd(Shr(data[1], 2), 3) = 4 - Len(payload)
    /\ Slice(data, 4, 4 + Len(payload)) = payload

\* header 0x21, the length in bytes 4..7
SegmentedInitiate(data, payload) ==
    /\ data[1] = 33
    /\ ReadUInt32LE(data, 4) = Len(payload)

ModeChoice(lengths) ==
    \A rid \in 1..Len(calls) :
        (/\ calls[rid].req.kind = "download"
         /\ Started(rid)
         /\ Len(calls[rid].req.data) \in lengths)
        => IF Len(calls[rid].req.data) \in 1..4
           THEN ExpeditedInitiate(InitiateOf(rid), calls[rid].req.data)
           ELSE SegmentedInitiate(InitiateOf(rid), calls[rid].req.data)

\* C13 Mode choice: SdoClient.download emits an expedited initiate frame (e=1,
\* s=1, n = 4 - length in bits 3..2, payload in bytes 4..7) exactly when the
\* payload length is in 1..4; a payload of any length outside 1..4 (length 0
\* or length > 4) takes the segmented path (initiate header 0x21 carrying the
\* length in bytes 4..7).
C13_ModeChoice == ModeChoice(0..MaxLen)

\* the part that holds: every payload of at least one byte
C13_ModeChoiceNonEmpty == ModeChoice(1..MaxLen)

\* a download of no bytes has been started with the header 0x33
C13_Witness ==
    \E rid \in 1..Len(calls) :
        /\ calls[rid].req.kind = "download" /\ Started(rid)
        /\ calls[rid].req.data = <<>>
        /\ InitiateOf(rid)[1] = 51

-----------------------------------------------------------------------------
(* Client and server wired together, with timers and a transport whose send *)
(* may throw while an initiate frame is sent                                *)

\* SdoClient.upload(args), device.send throws in the thunk
UploadSendThrows(req) == req.kind = "upload" /\ Submit(req, TRUE)

\* SdoClient.download(args), device.send throws in the thunk
DownloadSendThrows(req) == req.kind = "download" /\ Submit(req, TRUE)

\* time passes for the armed timer of a Transfer that SdoClient.transfers no
\* longer holds
OrphanTick(s) ==
    \E t \in orphans[s] :
        /\ t.timer = "armed"
        /\ t.elapsed < t.timeout
        /\ orphans' = [orphans EXCEPT ![s] = (@ \ {t}) \cup {[t EXCEPT !.elapsed = @ + 1]}]
        /\ last' = Observed("tick", t.rid, <<>>, <<>>)
        /\ UNCHANGED <<mode, params, servers, listeners, sync, calls, queue, pending, transfers, sctx, dict, c2s, s2c,
                       events, wire>>

\* the setTimeout callback of such a Transfer: this.abort(SdoCode.TIMEOUT);
\* its promise has settled, so the call to _reject changes nothing
OrphanTimerFire(s) ==
    \E t \in orphans[s] :
        /\ t.timer = "armed"
        /\ t.elapsed >= t.timeout
        /\ \E e \in {Transfer_abort(t, TIMEOUT)} :
               /\ orphans' = [orphans EXCEPT ![s] = (@ \ {t}) \cup {e.t}]
               /\ c2s' = Out(c2s, e.out)
               /\ wire' = [wire EXCEPT ![s] = @ \o Sent("client", t.rid, e.out)]
               /\ last' = Observed("timeout", t.rid, <<>>, e.out)
        /\ UNCHANGED <<mode, params, servers, listeners, sync, calls, queue, pending, transfers, sctx, dict, s2c, events>>

NextFail ==
    \/ \E req \in TimedRequests : Upload(req)
    \/ \E req \in TimedRequests : Download(req)
    \/ \E req \in TimedRequests : UploadSendThrows(req)
    \/ \E req \in TimedRequests : DownloadSendThrows(req)
    \/ ClientOnMessage
    \/ ServerOnMessage
    \/ \E s \in ServerIds : Tick(s)
    \/ \E s \in ServerIds : TimerFire(s)
    \/ \E s \in ServerIds : OrphanTick(s)
    \/ \E s \in ServerIds : OrphanTimerFire(s)

SpecFail == Init /\ [][NextFail]_vars

\* device.send threw while call rid sent its initiate frame
SendThrew(rid) == calls[rid].throws /\ Started(rid)

\* the abort frames the client sent for call rid
AbortFramesFor(rid) ==
    LET w == wire[calls[rid].req.serverId]
    IN  {i \in 1..Len(w) : w[i].src = "client" /\ w[i].rid = rid /\ w[i].m.data[1] = 128}

\* no call waits in the queue of s while none is pending
QueueProceeds(s) == pending[s] \/ queue[s] = <<>>

RejectsAndProceeds(rid) ==
    /\ calls[rid].state = "rejected"
    /\ calls[rid].code = SendError
    /\ QueueProceeds(calls[rid].req.serverId)

\* C14 Transport failure: if the transport's send throws while the client
\* emits the initiate frame of a transfer, the transfer's future rejects, the
\* per-server queue proceeds to the next pending transfer, and no abort frame
\* is emitted for the failed transfer at that time or at any later time (in
\* particular no TIMEOUT abort from a timer armed for it).
C14_TransportFailure ==
    \A rid \in 1..Len(calls) :
        SendThrew(rid) => RejectsAndProceeds(rid) /\ AbortFramesFor(rid) = {}

\* the part that holds: the future rejects and the queue proceeds
C14_RejectsAndProceeds ==
    \A rid \in 1..Len(calls) : SendThrew(rid) => RejectsAndProceeds(rid)

\* send threw for a call, the next call to the same server was started, and
\* the timer of the failed Transfer has put a TIMEOUT abort on the bus
C14_Witness ==
    \E rid \in 1..Len(calls) :
        /\ SendThrew(rid)
        /\ \E next \in 1..Len(calls) :
               /\ next > rid
               /\ calls[next].req.serverId = calls[rid].req.serverId
               /\ Started(next)
        /\ \E i \in AbortFramesFor(rid) :
               CodeOf(wire[calls[rid].req.serverId][i]) = TIMEOUT

-----------------------------------------------------------------------------
(* Progress of the queues *)

\* the calls submitted to server s
CallsTo(s) == {rid \in 1..Len(calls) : calls[rid].req.serverId = s}

\* every transfer submitted to server s has a non-zero timeout
AllTimed(s) == \A rid \in CallsTo(s) : calls[rid].req.timeout # 0

\* the step rejects the started call rid
Rejects(rid) ==
    /\ rid <= Len(calls)
    /\ calls[rid].state = "started"
    /\ calls'[rid].state = "rejected"

\* the rejection carries the error of the abort: the code of the peer's abort
\* frame, TIMEOUT from the timer, otherwise the code the client put in its
\* abort frame
RejectsWithError(rid) ==
    /\ last'.rid = rid
    /\ last'.tx # <<>>
    /\ IsAbortFrame(last'.tx[1])
    /\ calls'[rid].code = ReadUInt32LE(last'.tx[1].data, 4)
    /\ last'.op = "timeout" => calls'[rid].code = TIMEOUT
    /\ (last'.op = "crecv" /\ Shr(last'.rx[1], 5) = SCS_ABORT)
       => calls'[rid].code = ReadUInt32LE(last'.rx, 4)

\* the step starts the call at the head of the queue of server s, if any
StartsNext(s) ==
    queue[s] # <<>> =>
        /\ queue'[s] = Tail(queue[s])
        /\ pending'[s]
        /\ calls'[Head(queue[s])].state = "started"
        /\ transfers'[s].rid = Head(queue[s])
        /\ transfers'[s].active
        /\ Len(last'.tx) = 2
        /\ Shr(last'.tx[2].data[1], 5) \in {CCS_UPLOAD_INITIATE, CCS_DOWNLOAD_INITIATE}

RejectStep ==
    \A rid \in 1..MaxReq :
        Rejects(rid) => /\ RejectsWithError(rid)
                        /\ StartsNext(calls[rid].req.serverId)

\* the rejections alone, for every specification
C15_Rejections == [][RejectStep]_vars

\* C15 Queue progress: when the active transfer of a server rejects (peer
\* abort, local abort or timeout) the caller's future rejects with that error
\* and the next queued transfer for the same server is started; consequently,
\* if every transfer submitted to a server has a non-zero timeout, every
\* transfer submitted to that server is eventually started and eventually
\* settles, even if the server never answers.
C15_QueueProgress ==
    /\ [][RejectStep]_vars
    /\ \A s \in ServerIds : \A rid \in 1..MaxReq :
           (rid \in CallsTo(s) /\ AllTimed(s))
           ~> ((rid <= Len(calls) /\ Started(rid) /\ Settled(rid)) \/ ~AllTimed(s))

\* two calls to the server that never answers: the first timed out, the
\* second was started by that and timed out as well
C15_Witness ==
    /\ Len(calls) = 2
    /\ \A rid \in 1..2 :
           /\ calls[rid].req.serverId = 12
           /\ calls[rid].state = "rejected"
           /\ calls[rid].code = TIMEOUT
    /\ events[12] = <<(<<"start", 1>>), (<<"settle", 1>>), (<<"start", 2>>), (<<"settle", 2>>)>>

-----------------------------------------------------------------------------
(* Configuration of the client before init(): addServer and removeServer    *)

\* ids below, within and above 1..127
ConfigIds == {0, 1, 2, 127, 128}

Configure(op, serverId, r) ==
    /\ params' = r.params
    /\ last' = [op |-> op, rid |-> serverId, rx |-> <<>>, tx |-> <<>>, error |-> r.error]
    /\ UNCHANGED <<mode, servers, listeners, sync, calls, queue, pending, transfers, orphans, sctx, dict, c2s, s2c,
                   events, wire>>

AddServer(serverId) ==
    /\ mode = "config"
    /\ Configure("addServer", serverId, SdoClient_addServer(params, serverId, 1536, 1408))

RemoveServer(serverId) ==
    /\ mode = "config"
    /\ Configure("removeServer", serverId, SdoClient_removeServer(params, serverId))

InitConfig ==
    /\ mode = "config"
    /\ params = ParamsNone
    /\ servers = <<>>
    /\ listeners = [client |-> 0, server |-> 0]
    /\ sync = SyncInit
    /\ calls = <<>>
    /\ queue = [s \in ServerIds |-> <<>>]
    /\ pending = [s \in ServerIds |-> FALSE]
    /\ transfers = [s \in ServerIds |-> NoTransfer]
    /\ orphans = [s \in ServerIds |-> {}]
    /\ sctx = ServerCtxInit
    /\ dict = DictInit
    /\ c2s = <<>>
    /\ s2c = <<>>
    /\ events = [s \in ServerIds |-> <<>>]
    /\ wire = [s \in ServerIds |-> <<>>]
    /\ last = Observed("init", 0, <<>>, <<>>)

NextConfig ==
    \/ \E serverId \in ConfigIds : AddServer(serverId)
    \/ \E serverId \in ConfigIds : RemoveServer(serverId)

SpecConfig == InitConfig /\ [][NextConfig]_vars

\* the entries of 0x1280..0x12FF whose sub-entry 3 equals id
EntriesOf(p, id) == {i \in DOMAIN p : p[i] # NoEntry /\ p[i][3] = id}

\* the step is a call of op with the id
Calls(op, id) == last'.op = op /\ last'.rid = id /\ (last' # last \/ params' # params)

\* the call failed with the error and left the dictionary as it was
FailsWith(error) == last'.error = error /\ params' = params

ConfigErrors ==
    \A id \in ConfigIds :
        /\ (Calls("addServer", id) /\ id \notin 1..127) => FailsWith("RangeError")
        /\ (Calls("addServer", id) /\ id \in 1..127 /\ EntriesOf(params, id) # {})
           => FailsWith("EdsError")
        /\ (Calls("removeServer", id) /\ EntriesOf(params, id) = {})
           => FailsWith("ReferenceError")
        /\ ((Calls("addServer", id) \/ Calls("removeServer", id)) /\ last'.error # "none")
           => params' = params

\* C16 add_server/remove_server errors: add_server(id) with id outside 1..127
\* fails with a range error, add_server(id) with an id already present in an
\* entry of 0x1280..0x12FF fails with a duplicate error, remove_server(id)
\* with no matching entry fails with a not-found error, and in each failing
\* case the dictionary is unchanged; after any sequence of
\* add_server/remove_server calls at most one entry in 0x1280..0x12FF has
\* sub-entry 3 equal to a given id.
C16_ServerTable ==
    /\ [][ConfigErrors]_vars
    /\ [](\A id \in ConfigIds : Cardinality(EntriesOf(params, id)) <= 1)

\* three servers are mapped, one of them in the slot a removed one left, and
\* adding one of them again has just failed
C16_Witness ==
    /\ mode = "config"
    /\ last.op = "addServer" /\ last.error = "EdsError"
    /\ params[4736] # NoEntry /\ params[4736][3] = 127
    /\ Cardinality({i \in ParamIndexes : params[i] # NoEntry}) = 3

-----------------------------------------------------------------------------
(* Frames of an expedited upload *)

\* call rid is an upload of a READ_WRITE entry
UploadOfReadWrite(rid) ==
    /\ calls[rid].req.kind = "upload"
    /\ Lookup(KeyOf(rid)[1], KeyOf(rid)[2]) = KeyOf(rid)
    /\ AccessType(KeyOf(rid)) = "rw"

\* the last step was the server handling an upload request for a READ_WRITE
\* entry that holds one byte
ServesOneByte ==
    /\ last.op = "srecv"
    /\ Shr(last.rx[1], 5) = CCS_UPLOAD_INITIATE
    /\ LET key == Lookup(ReadUInt16LE(last.rx, 1), last.rx[4])
       IN  Len(key) = 2 /\ AccessType(key) = "rw" /\ Len(dict[key]) = 1

\* the last step was the client handling the reply 4F I_lo I_hi S B 00 00 00
\* to the upload rid, which was waiting for it
HandlesOneByteReply(rid) ==
    /\ last.op = "crecv" /\ last.rid = rid
    /\ UploadOfReadWrite(rid)
    /\ last.rx = Frame(79, KeyOf(rid)[1], KeyOf(rid)[2], <<last.rx[5], 0, 0, 0>>)
    /\ ClientSegs(rid) = {}

\* the three frames and the result, with b0 the command byte of the request
ExpeditedUploadWire(b0) ==
    /\ \A rid \in 1..Len(calls) :
           (UploadOfReadWrite(rid) /\ Started(rid))
           => InitiateOf(rid) = Frame(b0, KeyOf(rid)[1], KeyOf(rid)[2], Alloc(4))
    /\ ServesOneByte =>
           last.tx = <<Msg(ServerCobIdTx,
                           Frame(79, ReadUInt16LE(last.rx, 1), last.rx[4],
                                 <<dict[<<ReadUInt16LE(last.rx, 1), last.rx[4]>>][1], 0, 0, 0>>))>>
    /\ \A rid \in 1..Len(calls) :
           HandlesOneByteReply(rid) =>
               /\ calls[rid].state = "resolved"
               /\ calls[rid].value = <<last.rx[5]>>

\* C17 Expedited upload wire format, as the code has it: for an upload of
\* index I / sub-index S of a 1-byte READ_WRITE entry holding byte B, the
\* client's request frame is 40 I_lo I_hi S 00 00 00 00, the server's reply
\* frame is 4F I_lo I_hi S B 00 00 00, and the upload resolves with the single
\* byte B.
C17_ExpeditedUpload == ExpeditedUploadWire(64)

\* C17 as stated: the client's request frame is 41 I_lo I_hi S 00 00 00 00
C17_ExpeditedUploadFrom41 == ExpeditedUploadWire(65)

\* the upload of 0x2000 holding 0x42: 40 00 20 00 00 00 00 00 went out,
\* 4F 00 20 00 42 00 00 00 came back and the upload resolved with 0x42
C17_Witness ==
    \E rid \in 1..Len(calls) :
        /\ HandlesOneByteReply(rid)
        /\ InitiateOf(rid) = <<64, 0, 32, 0, 0, 0, 0, 0>>
        /\ last.rx = <<79, 0, 32, 0, 66, 0, 0, 0>>
        /\ calls[rid].state = "resolved" /\ calls[rid].value = <<66>>

-----------------------------------------------------------------------------
(* Frames of a segmented download *)

\* the frames of call rid in the order they were put on the bus
WireOf(rid) ==
    LET S == Span(rid)
        first == FirstIndex(S, 1)
    IN  [k \in 1..Cardinality(S) |->
            [src |-> ServerWire[first + k - 1].src, data |-> ServerWire[first + k - 1].m.data]]

On(src, data) == [src |-> src, data |-> data]

\* the six frames of a download of Payload(10) to 0x2002 sub 0, with b0 the
\* command byte of the second segment
TenByteDownloadWire(b0) ==
    <<On("client", <<33, 2, 32, 0, 10, 0, 0, 0>>),
      On("server", <<96, 2, 32, 0, 0, 0, 0, 0>>),
      On("client", <<0>> \o Slice(Payload(10), 0, 7)),
      On("server", <<32>> \o Alloc(7)),
      On("client", <<b0>> \o Slice(Payload(10), 7, 10) \o Alloc(4)),
      On("server", <<48>> \o Alloc(7))>>

TenByteDownload(rid) ==
    calls[rid].req = Req("download", ServerDeviceId, 8194, 0, Payload(10), 0)

SegmentedDownloadWire(b0) ==
    \A rid \in 1..Len(calls) :
        (TenByteDownload(rid) /\ Started(rid)) =>
            /\ Len(WireOf(rid)) <= 6
            /\ WireOf(rid) = SubSeq(TenByteDownloadWire(b0), 1, Len(WireOf(rid)))
            /\ Settled(rid) =>
                   /\ Resolved_(rid)
                   /\ Len(WireOf(rid)) = 6
                   /\ dict[<<8194, 0>>] = Payload(10)
            /\ (Len(WireOf(rid)) = 6 /\ s2c = <<>>) => Resolved_(rid)

\* C18 Segmented download wire format, as the code has it: a 10-byte download
\* to index 0x2002 sub 0 produces, in this order, client initiate
\* 21 02 20 00 0A 00 00 00, server ack with command byte 0x60, client segment
\* 0 with header 0x00 carrying bytes 0..6 (toggle=0, n=0, c=0), server ack
\* 0x20, client segment 1 with header 0x19 carrying bytes 7..9 followed by
\* zero padding (toggle=1, n=4, c=1), server ack 0x30, after which the entry's
\* raw bytes equal the 10 payload bytes and the client future resolves.
C18_SegmentedDownload == SegmentedDownloadWire(25)

\* C18 as stated: client segment 1 with header 0x17
C18_SegmentedDownloadFrom17 == SegmentedDownloadWire(23)

\* the six frames are on the bus, the entry holds the payload and the
\* download has resolved
C18_Witness ==
    \E rid \in 1..Len(calls) :
        /\ TenByteDownload(rid)
        /\ Resolved_(rid)
        /\ WireOf(rid) = TenByteDownloadWire(25)
        /\ dict[<<8194, 0>>] = Payload(10)

-----------------------------------------------------------------------------
(* The abort codes and their messages *)

\* the enumeration of abort codes of the specification
AbortCode ==
    <<
      <<"TOGGLE_BIT", 84082688>>,
      <<"TIMEOUT", 84148224>>,
      <<"BAD_COMMAND", 84148225>>,
      <<"OUT_OF_MEMORY", 84148229>>,
      <<"UNSUPPORTED_ACCESS", 100728832>>,
      <<"WRITE_ONLY", 100728833>>,
      <<"READ_ONLY", 100728834>>,
      <<"OBJECT_UNDEFINED", 100794368>>,
      <<"BAD_LENGTH", 101122064>>,
      <<"DATA_LONG", 101122066>>,
      <<"DATA_SHORT", 101122067>>,
      <<"BAD_SUB_INDEX", 101253137>>,
      <<"BAD_VALUE", 101253168>>,
      <<"VALUE_HIGH", 101253169>>,
      <<"VALUE_LOW", 101253170>>,
      <<"RANGE_ERROR", 101253174>>,
      <<"SDO_NOT_AVAILABLE", 101318691>>,
      <<"GENERAL_ERROR", 134217728>>,
      <<"DATA_TRANSFER", 134217760>>,
      <<"LOCAL_CONTROL", 134217761>>,
      <<"DEVICE_STATE", 134217762>>,
      <<"OD_ERROR", 134217763>>,
      <<"NO_DATA", 134217764>>
    >>

AbortCodeValues == {AbortCode[i][2] : i \in 1..Len(AbortCode)}
SdoCodeValues == {SdoCodeTable[i][2] : i \in 1..Len(SdoCodeTable)}

\* the codes errors are built from: every code of SdoCode and of the
\* enumeration, the codes next to them, 0 and 0x12345678
CodeInputs ==
    LET known == AbortCodeValues \cup SdoCodeValues
    IN  known \cup {c + 1 : c \in known} \cup {0, UnknownCode}

\* new SdoError(code, index, subIndex)
NewSdoError(code, index, subIndex) ==
    /\ mode = "codes"
    /\ last' = [op |-> "SdoError", rid |-> 0, rx |-> <<>>, tx |-> <<>>, code |-> code,
                error |-> SdoError(code, index, subIndex)]
    /\ UNCHANGED <<mode, params, servers, listeners, sync, calls, queue, pending, transfers, orphans, sctx, dict,
                   c2s, s2c, events, wire>>

InitCodes == mode = "codes" /\ InitState

NextCodes ==
    \E code \in CodeInputs : \E index \in {8192, 8196} : \E subIndex \in {0, 1} :
        NewSdoError(code, index, subIndex)

SpecCodes == InitCodes /\ [][NextCodes]_vars

\* the codes of the names are distinct values of 32 bits, and SdoCode has
\* each of them, under the same name where it has the name
DistinctCodes(names) ==
    \A i, j \in names :
        /\ AbortCode[i][2] >= 0 /\ Shr(AbortCode[i][2], 16) < Pow2(16)
        /\ i # j => AbortCode[i][2] # AbortCode[j][2]
        /\ AbortCode[i][2] \in SdoCodeValues
        /\ \A k \in 1..Len(SdoCodeTable) :
               SdoCodeTable[k][1] = AbortCode[i][1] => SdoCodeTable[k][2] = AbortCode[i][2]

\* the error just built from a code of the names has a message of its own
OwnMessages(names) ==
    \A i \in names :
        (last.op = "SdoError" /\ last.code = AbortCode[i][2]) =>
            /\ last.error.message[1] # "Unknown error"
            /\ \A j \in names :
                   i # j => codeToString(AbortCode[j][2]) # last.error.message[1]

\* the error just built carries its code, and "Unknown error" when the code is
\* in no table
CarriesCode ==
    last.op = "SdoError" =>
        /\ last.error.code = last.code
        /\ last.code \notin (AbortCodeValues \cup SdoCodeValues)
           => last.error.message[1] = "Unknown error"

AbortCodeNames == 1..Len(AbortCode)
DataShort == CHOOSE i \in AbortCodeNames : AbortCode[i][1] = "DATA_SHORT"

\* C19 Abort-code table: each AbortCode of the specification's enumeration is
\* a distinct 32-bit value (in particular DATA_LONG = 0x06070012 and
\* DATA_SHORT = 0x06070013 differ) and the message lookup maps each of them to
\* its own message, never to "Unknown error"; every code outside the table
\* maps to "Unknown error" while the SdoError still carries the numeric code
\* unchanged.
C19_AbortCodeTable ==
    /\ DistinctCodes(AbortCodeNames)
    /\ OwnMessages(AbortCodeNames)
    /\ CarriesCode

\* the part that holds: every code of the enumeration but DATA_SHORT
C19_AllButDataShort ==
    /\ DistinctCodes(AbortCodeNames \ {DataShort})
    /\ OwnMessages(AbortCodeNames \ {DataShort})
    /\ CarriesCode

\* the lookup alone fails as well: the error built from 0x06070013
C19_Messages == OwnMessages(AbortCodeNames)

\* an SdoError was built from 0x06070013 and says "Unknown error"
C19_Witness ==
    /\ last.op = "SdoError"
    /\ last.code = 101122067
    /\ last.error.code = 101122067
    /\ last.error.message[1] = "Unknown error"

-----------------------------------------------------------------------------
(* The deadline of the server *)

\* the server is in a segmented transfer: its context became active when it
\* acknowledged a segmented DOWNLOAD_INITIATE or sent a segmented
\* UPLOAD_INITIATE reply
ServerInSegmented == sctx.active

\* the frames the server has sent so far
ServerSent == Cardinality({i \in 1..Len(ServerWire) : ServerWire[i].src = "server"})

\* the server has sent at most this many frames in a behaviour
MaxServerSent == 4 * MaxReq + 4

\* the server has just aborted with TIMEOUT by itself
ServerTimedOut ==
    /\ ~sctx.active
    /\ Len(ServerWire) > 0
    /\ ServerWire[Len(ServerWire)] =
           [src |-> "server", rid |-> 0, m |-> ServerAbortFrame(sctx.index, sctx.subIndex, TIMEOUT)]

\* C20 Server timeout: when the server enters a segmented transfer (after
\* acknowledging a segmented DOWNLOAD_INITIATE or sending a segmented
\* UPLOAD_INITIATE reply) a deadline timer is armed, and if the client sends no
\* further frame the server eventually self-aborts: it emits an abort frame
\* with code TIMEOUT (0x05040000) to the client and its context becomes
\* inactive.
C20_ServerTimeout ==
    /\ [](ServerInSegmented => sctx.timer = "armed")
    /\ \A k \in 0..MaxServerSent :
           (ServerInSegmented /\ ServerSent = k) ~> (ServerSent # k \/ ServerTimedOut)

\* the second half alone: a server in a segmented transfer that handles no
\* further frame aborts with TIMEOUT
C20_SelfAbort ==
    \A k \in 0..MaxServerSent :
        (ServerInSegmented /\ ServerSent = k) ~> (ServerSent # k \/ ServerTimedOut)

\* the server acknowledged a segmented DOWNLOAD_INITIATE, its context is
\* active and holds no timer, and the client has given up with TIMEOUT
C20_Witness ==
    /\ sctx.active /\ sctx.timer = "null"
    /\ \E i \in 1..Len(ServerWire) :
           ServerWire[i].src = "server" /\ ServerWire[i].m.data[1] = 96
    /\ \E rid \in 1..Len(calls) :
           /\ calls[rid].req.kind = "download"
           /\ calls[rid].state = "rejected" /\ calls[rid].code = TIMEOUT

\* ---------------------------------------------------------------------------
\* Segments outside a transfer (server)

\* the server holds an active segmented transfer of the direction of the
\* segment frame b0, started by the last initiate frame
ServerInTransfer(b0) ==
    /\ sctx.active
    /\ ServerSegmented
    /\ SegmentOfDirection(b0)

IsSegmentRequest(b0) == Shr(b0, 5) \in {CCS_DOWNLOAD_SEGMENT, CCS_UPLOAD_SEGMENT}

\* this step the server gets a segment frame while no such transfer is active
SegmentOutsideTransfer ==
    /\ mode = "server"
    /\ ServerStep
    /\ IsSegmentRequest(last'.rx[1])
    /\ ~ServerInTransfer(last'.rx[1])

SegmentDropped ==
    /\ last'.tx = <<>>
    /\ sctx'.data = sctx.data /\ sctx'.size = sctx.size
    /\ dict' = dict

\* C21 Server drops segments outside a transfer: a DOWNLOAD_SEGMENT or
\* UPLOAD_SEGMENT frame that reaches the server while no segmented transfer of
\* that direction is active (before any initiate, after completion, after an
\* abort from either side) is dropped: no frame is emitted, no buffer is
\* extended, no dictionary entry is modified.
C21_SegmentsDropped == [][SegmentOutsideTransfer => SegmentDropped]_vars

\* a segment frame was the first frame the server ever got, and it answered
C21_Witness ==
    /\ mode = "server"
    /\ Len(ServerWire) >= 2
    /\ ServerWire[1].src = "peer" /\ IsSegmentRequest(ServerWire[1].m.data[1])
    /\ ServerWire[2].src = "server"

\* ---------------------------------------------------------------------------
\* Upload-initiate encoding (server)

\* this step the server gets an UPLOAD_INITIATE request for the readable entry key
ServesUpload(key) ==
    /\ ServerStep
    /\ Shr(last'.rx[1], 5) = CCS_UPLOAD_INITIATE
    /\ Lookup(ReadUInt16LE(last'.rx, 1), last'.rx[4]) = key
    /\ AccessType(key) # "wo"

\* scs = 2, e = 1, s = 1, n = 4 - size in bits 3..2, bit 4 clear
ExpeditedUploadByte(b0, size) ==
    /\ Shr(b0, 5) = SCS_UPLOAD_INITIATE
    /\ BitAnd(b0, 16) = 0
    /\ BitAnd(Shr(b0, 2), 3) = 4 - size
    /\ BitAnd(b0, 3) = 3

UploadReplyEncoded(key) ==
    /\ Len(last'.tx) = 1
    /\ LET b == last'.tx[1].data
           size == EntrySize(dict, key)
       IN  IF size <= 4
           THEN ExpeditedUploadByte(b[1], size)
           ELSE b[1] = 65 /\ Slice(b, 4, 8) = WriteUInt32LE(size)

UploadEncoding(sizes) ==
    \A key \in EntryKeys :
        (ServesUpload(key) /\ EntrySize(dict, key) \in sizes) => UploadReplyEncoded(key)

\* C22 Server upload-initiate encoding: for every readable entry of size 0, 1,
\* 2, 3 or 4 the reply is an expedited frame with scs = 2, e = 1, s = 1,
\* n = 4 - size in bits 3..2 and no other bit set; for every entry of more
\* than 4 bytes the reply has command byte 0x41 and the total length as a
\* 32-bit little-endian value in bytes 4..7.
C22_UploadEncoding == [][UploadEncoding(0..MaxLen)]_vars

\* the same without the sizes 0 and 4
C22_UploadEncodingOneToThree == [][UploadEncoding((1..3) \cup (5..MaxLen))]_vars

\* the server answered the upload of an entry of s bytes with command byte b0
UploadAnswered(s, b0) ==
    /\ last.op = "srecv"
    /\ Shr(last.rx[1], 5) = CCS_UPLOAD_INITIATE
    /\ LET key == Lookup(ReadUInt16LE(last.rx, 1), last.rx[4])
       IN  Len(key) = 2 /\ EntrySize(dict, key) = s
    /\ Len(last.tx) = 1 /\ last.tx[1].data[1] = b0

\* the upload of a 4-byte entry was answered with 0x42, that of an empty entry
\* with 0x53, of 3 bytes with 0x47, of 10 bytes with 0x41
C22_Witness == UploadAnswered(4, 66)
C22_WitnessEmpty == UploadAnswered(0, 83)
C22_WitnessThree == UploadAnswered(3, 71)
C22_WitnessLong == UploadAnswered(10, 65)

\* ---------------------------------------------------------------------------
\* Upload segmentation (server)

\* the position of i among the positions S, counted from 1
Rank(S, i) == Cardinality({j \in S : j <= i})

\* the payload bytes of a segment frame
SegmentPayload(e) == Slice(e.m.data, 1, 1 + PayloadLen(e))

\* a resolved upload of more than 4 bytes
LongUpload(rid) == SuccessfulUpload(rid) /\ Len(calls[rid].value) > 4

\* the server's segments of call rid: ceil(L/7) frames, the k-th with the next
\* min(7, remaining) bytes, c = 1 on the one with the last bytes and only there
SegmentedAsSpecified(rid) ==
    LET L == Len(calls[rid].value)
        segs == ServerUploadSegs(rid)
    IN  /\ Cardinality(segs) = (L + 6) \div 7
        /\ \A i \in segs :
               LET k == Rank(segs, i)
               IN  /\ PayloadLen(ServerWire[i]) = Min(7, L - 7 * (k - 1))
                   /\ SegmentPayload(ServerWire[i])
                          = SubSeq(calls[rid].value, 7 * (k - 1) + 1, Min(7 * k, L))
                   /\ IsLastSegment(ServerWire[i]) <=> 7 * k >= L

\* C23 Server upload segmentation: for an entry of L > 4 bytes the server
\* answers the correctly toggled UPLOAD_SEGMENT requests with exactly
\* ceil(L/7) segment frames, each with the next min(7, remaining) bytes, and
\* sets c = 1 on the frame that carries the last payload bytes; no segment
\* with c = 1 carries zero payload bytes.
C23_UploadSegmentation ==
    \A rid \in 1..Len(calls) :
        LongUpload(rid)
        => /\ SegmentedAsSpecified(rid)
           /\ \A i \in ServerUploadSegs(rid) :
                  IsLastSegment(ServerWire[i]) => PayloadLen(ServerWire[i]) > 0

\* what the code does: one frame more than ceil(L/7); the frames before the
\* last carry all L bytes with c = 0, the last one carries no byte and c = 1
C23_ExtraEmptySegment ==
    \A rid \in 1..Len(calls) :
        LongUpload(rid)
        => LET L == Len(calls[rid].value)
               segs == ServerUploadSegs(rid)
           IN  /\ Cardinality(segs) = (L + 6) \div 7 + 1
               /\ \A i \in segs :
                      LET k == Rank(segs, i)
                      IN  IF 7 * (k - 1) >= L
                          THEN PayloadLen(ServerWire[i]) = 0 /\ IsLastSegment(ServerWire[i])
                          ELSE /\ SegmentPayload(ServerWire[i])
                                      = SubSeq(calls[rid].value, 7 * (k - 1) + 1, Min(7 * k, L))
                               /\ ~IsLastSegment(ServerWire[i])

\* a 10-byte upload resolved after three segment frames, the third 0F 00 ..
C23_Witness ==
    \E rid \in 1..Len(calls) :
        /\ LongUpload(rid) /\ Len(calls[rid].value) = 10
        /\ Cardinality(ServerUploadSegs(rid)) = 3
        /\ \E i \in ServerUploadSegs(rid) : ServerWire[i].m.data = <<15>> \o Alloc(7)

\* ---------------------------------------------------------------------------
\* Download segmentation (client)

\* the client's download segments of call rid and the server's acks of them
ClientDownloadSegs(rid) ==
    {i \in Span(rid) : ServerWire[i].src = "client" /\ Cs(ServerWire[i]) = CCS_DOWNLOAD_SEGMENT}
ServerDownloadAcks(rid) ==
    {i \in Span(rid) : ServerWire[i].src = "server" /\ Cs(ServerWire[i]) = SCS_DOWNLOAD_SEGMENT}

\* segment i (from 0) of the payload data, as the claim describes it
SpecifiedSegment(data, i) ==
    LET L == Len(data)
        count == Min(7, L - 7 * i)
        toggle == i % 2
        c == IF 7 * i + count = L THEN 1 ELSE 0
    IN  <<toggle * 16 + (7 - count) * 2 + c>>
        \o SubSeq(data, 7 * i + 1, 7 * i + count) \o Alloc(7 - count)

LongDownload(rid) == calls[rid].req.kind = "download" /\ Len(calls[rid].req.data) > 4

\* the segments sent so far are the first of the specified ones, and the call
\* is resolved only with all of them sent and acked
DownloadSegmented(rid) ==
    LET data == calls[rid].req.data
        n == (Len(data) + 6) \div 7
        segs == ClientDownloadSegs(rid)
    IN  /\ Cardinality(segs) <= n
        /\ \A i \in segs : ServerWire[i].m.data = SpecifiedSegment(data, Rank(segs, i) - 1)
        /\ Resolved_(rid)
           => Cardinality(segs) = n /\ Cardinality(ServerDownloadAcks(rid)) = n

\* this step the client handles the ack of the final segment of call rid
FinalAck(rid) ==
    /\ calls[rid].state = "started"
    /\ ClientHandlesFrame
    /\ last'.rid = rid
    /\ Shr(last'.rx[1], 5) = SCS_DOWNLOAD_SEGMENT
    /\ Cardinality(ServerDownloadAcks(rid)) = (Len(calls[rid].req.data) + 6) \div 7

\* C24 Client download segmentation: for a payload of L > 4 bytes answered by
\* correct acks the client emits exactly ceil(L/7) segment frames; segment i
\* carries the bytes 7i .. min(7i+7, L)-1 with zero padding, its header is
\* (toggle<<4) | ((7-count)<<1) | last with toggle = i mod 2, c = 1 on the
\* final segment only, and the future resolves on the ack of the final
\* segment and not before.
C24_DownloadSegmentation ==
    [][/\ \A rid \in 1..Len(calls') : LongDownload(rid)' => DownloadSegmented(rid)'
       /\ \A rid \in 1..Len(calls) :
              (LongDownload(rid) /\ FinalAck(rid)) => Resolved_(rid)']_vars

\* downloads of 7 and of 14 bytes resolved, and one of 10 bytes
C24_Witness ==
    \E rid \in 1..Len(calls) :
        /\ LongDownload(rid) /\ Resolved_(rid)
        /\ Len(calls[rid].req.data) = 14
        /\ Cardinality(ClientDownloadSegs(rid)) = 2
C24_WitnessSeven ==
    \E rid \in 1..Len(calls) :
        /\ LongDownload(rid) /\ Resolved_(rid)
        /\ Len(calls[rid].req.data) = 7
        /\ Cardinality(ClientDownloadSegs(rid)) = 1
C24_WitnessTen ==
    \E rid \in 1..Len(calls) :
        /\ LongDownload(rid) /\ Resolved_(rid)
        /\ Len(calls[rid].req.data) = 10
        /\ \E i \in ClientDownloadSegs(rid) :
               ServerWire[i].m.data = <<25>> \o SubSeq(Payload(10), 8, 10) \o Alloc(4)

\* ---------------------------------------------------------------------------
\* Stop-and-wait ordering (client)

\* the peer frame e acknowledges step k - 1 of the transfer of call rid:
\* for k = 1 the initiate reply, for k > 1 the ack of segment k - 1 (download)
\* or segment k - 1 itself (upload), with the toggle bit of that segment
AcknowledgesStep(e, rid, k) ==
    /\ e.src = "peer"
    /\ IF calls[rid].req.kind = "download"
       THEN Cs(e) = IF k = 1 THEN SCS_DOWNLOAD_INITIATE ELSE SCS_DOWNLOAD_SEGMENT
       ELSE Cs(e) = IF k = 1 THEN SCS_UPLOAD_INITIATE ELSE SCS_UPLOAD_SEGMENT
    /\ k > 1 => ToggleOf(e) = k % 2

\* every segment frame of call rid is the k-th one for the first time, and
\* directly follows the frame acknowledging step k - 1
StopAndWait(rid) ==
    \A i \in ClientSegs(rid) :
        LET k == Rank(ClientSegs(rid), i)
        IN  /\ ToggleOf(ServerWire[i]) = (k - 1) % 2
            /\ i > 1 /\ AcknowledgesStep(ServerWire[i - 1], rid, k)

\* C25 Stop-and-wait ordering: within one client transfer every outbound
\* segment frame (download segment or upload-segment request) is emitted only
\* as the reaction to the inbound frame acknowledging the previous step, and
\* no segment is emitted twice, for any sequence of inbound frames, including
\* duplicated acks.
C25_StopAndWait ==
    mode = "client" => \A rid \in 1..Len(calls) : StopAndWait(rid)

\* the frames the peer sent in answer to call rid
PeerFramesOf(rid) ==
    {i \in 1..Len(ServerWire) :
        /\ ServerWire[i].src = "peer"
        /\ \E j \in 1..i : ServerWire[j].src = "client" /\ ServerWire[j].rid = rid
        /\ \A j \in 1..i : ServerWire[j].src = "client" => ServerWire[j].rid <= rid}

\* the peer's first frame is the initiate reply of the direction of the call
\* and its only initiate reply, and its segments are of that direction
InitiatedOnce(rid) ==
    LET down == calls[rid].req.kind = "download"
        initiate == IF down THEN SCS_DOWNLOAD_INITIATE ELSE SCS_UPLOAD_INITIATE
        other == IF down THEN {SCS_UPLOAD_INITIATE, SCS_UPLOAD_SEGMENT}
                 ELSE {SCS_DOWNLOAD_INITIATE, SCS_DOWNLOAD_SEGMENT}
    IN  \A i \in PeerFramesOf(rid) :
            /\ Cs(ServerWire[i]) = initiate <=> Rank(PeerFramesOf(rid), i) = 1
            /\ Cs(ServerWire[i]) \notin other

\* the same for the transfers the peer initiated once in their direction,
\* whatever segments, acks and aborts follow
C25_StopAndWaitInitiatedOnce ==
    mode = "client"
    => \A rid \in 1..Len(calls) : InitiatedOnce(rid) => StopAndWait(rid)

\* the initiate ack of a download came twice and segment 0 went out twice
C25_Witness ==
    /\ mode = "client"
    /\ \E rid \in 1..Len(calls) :
           /\ calls[rid].req.kind = "download"
           /\ \E i, j \in ClientSegs(rid) :
                  /\ i < j
                  /\ ServerWire[i].m.data = ServerWire[j].m.data
                  /\ ServerWire[j - 1].m.data = Frame(96, 8192, 0, Alloc(4))

\* ---------------------------------------------------------------------------
\* Upload reassembly (client)

\* the initiate reply of call rid, the first frame of the peer
InitiateReply(rid) == ServerWire[FirstIndex(PeerFramesOf(rid), 1)].m.data

\* this step the client, in the segmented upload of call rid, gets a segment
\* with the toggle bit it expects
UploadSegmentArrives(rid) ==
    /\ mode = "client"
    /\ calls[rid].req.kind = "upload" /\ calls[rid].state = "started"
    /\ transfers[ServerDeviceId].rid = rid /\ transfers[ServerDeviceId].active
    /\ PeerFramesOf(rid) # {} /\ InitiatedOnce(rid)
    /\ ClientHandlesFrame /\ last'.rid = rid
    /\ Shr(last'.rx[1], 5) = SCS_UPLOAD_SEGMENT
    /\ BitAnd(Shr(last'.rx[1], 4), 1) = transfers[ServerDeviceId].toggle

\* the buffer with the 7 - n bytes of the segment appended
Reassembled ==
    transfers[ServerDeviceId].data
    \o Slice(last'.rx, 1, 1 + 7 - BitAnd(Shr(last'.rx[1], 1), 7))

\* the initiate reply declared a size other than the number of bytes received
SizeMismatch(rid) ==
    /\ BitAnd(InitiateReply(rid)[1], 1) = 1
    /\ ReadUInt32LE(InitiateReply(rid), 4) # Len(Reassembled)

UploadReassembled(rid) ==
    IF BitAnd(last'.rx[1], 1) = 0
    THEN /\ transfers'[ServerDeviceId].data = Reassembled
         /\ calls'[rid].state = "started"
    ELSE IF SizeMismatch(rid)
    THEN /\ calls'[rid].state = "rejected" /\ calls'[rid].code = BAD_LENGTH
         /\ Len(last'.tx) >= 1
         /\ last'.tx[1].data = AbortFrame(transfers[ServerDeviceId], BAD_LENGTH)
    ELSE /\ calls'[rid].state = "resolved" /\ calls'[rid].value = Reassembled
         /\ \A i \in 1..Len(last'.tx) : last'.tx[i].data[1] # 128

\* C26 Client upload reassembly: in a segmented upload the client appends the
\* 7 - n bytes of every correctly toggled segment to its buffer; on a segment
\* with c = 1 it resolves with the concatenation of all segment payloads, and
\* it aborts with BAD_LENGTH only when the initiate reply declared a size
\* (s = 1) that differs from the number of bytes received; an upload whose
\* initiate reply declared no size (s = 0) resolves with the received bytes.
C26_UploadReassembly ==
    [][\A rid \in 1..Len(calls) : UploadSegmentArrives(rid) => UploadReassembled(rid)]_vars

\* the same for the uploads whose initiate reply declared a size
C26_UploadReassemblySized ==
    [][\A rid \in 1..Len(calls) :
          (UploadSegmentArrives(rid) /\ BitAnd(InitiateReply(rid)[1], 1) = 1)
          => UploadReassembled(rid)]_vars

\* an upload answered 40 .. (no size), then two segments of 7 and 3 bytes,
\* ended rejected with BAD_LENGTH
C26_Witness ==
    /\ mode = "client"
    /\ \E rid \in 1..Len(calls) :
           /\ calls[rid].req.kind = "upload"
           /\ PeerFramesOf(rid) # {} /\ InitiateReply(rid) = Frame(64, 8192, 0, Alloc(4))
           /\ Cardinality(PeerFramesOf(rid)) = 3
           /\ last.op = "crecv" /\ last.rid = rid
           /\ last.rx = <<25>> \o Payload(3) \o Alloc(4)
           /\ calls[rid].state = "rejected" /\ calls[rid].code = BAD_LENGTH

\* with the size declared: 10 bytes resolved, 3 bytes of 10 refused
C26_WitnessResolved ==
    /\ mode = "client"
    /\ \E rid \in 1..Len(calls) :
           /\ calls[rid].state = "resolved"
           /\ calls[rid].value = Payload(7) \o Payload(3)
C26_WitnessMismatch ==
    /\ mode = "client"
    /\ \E rid \in 1..Len(calls) :
           /\ PeerFramesOf(rid) # {} /\ InitiateReply(rid) = Frame(65, 8192, 0, WriteUInt32LE(10))
           /\ last.rx = <<9>> \o Payload(3) \o Alloc(4)
           /\ calls[rid].state = "rejected" /\ calls[rid].code = BAD_LENGTH

\* ---------------------------------------------------------------------------
\* Abort frames of the client

\* this step the SdoClient handles a frame or a timeout for its Transfer t
ClientReacts(s) ==
    /\ transfers[s] # NoTransfer
    /\ last'.rid = transfers[s].rid
    /\ \/ ClientHandlesFrame
       \/ last'.op = "timeout" /\ transfers' # transfers

\* the abort frames the client emits in this step
AbortsEmitted == {i \in 1..Len(last'.tx) : last'.tx[i].data[1] = 128}

\* the violation the client detects in this step, as its abort code
LocalViolation(t) ==
    IF last'.op = "timeout" THEN {TIMEOUT}
    ELSE LET b0 == last'.rx[1]
             scs == Shr(b0, 5)
             received == Len(t.data) + 7 - BitAnd(Shr(b0, 1), 7)
         IN  IF scs \notin {SCS_UPLOAD_SEGMENT, SCS_DOWNLOAD_SEGMENT, SCS_UPLOAD_INITIATE,
                            SCS_DOWNLOAD_INITIATE, SCS_ABORT}
             THEN {BAD_COMMAND}
             ELSE IF scs \in {SCS_UPLOAD_SEGMENT, SCS_DOWNLOAD_SEGMENT} /\ t.active
             THEN IF BitAnd(Shr(b0, 4), 1) # t.toggle THEN {TOGGLE_BIT}
                  ELSE IF scs = SCS_UPLOAD_SEGMENT /\ BitAnd(b0, 1) = 1 /\ t.size # received
                  THEN {BAD_LENGTH}
                  ELSE {}
             ELSE {}

\* an abort frame goes out only with the code of a violation detected in this step
OnlyLocalAborts(s) ==
    \A i \in AbortsEmitted :
        ReadUInt32LE(last'.tx[i].data, 4) \in LocalViolation(transfers[s])

\* an ABORT frame of the server rejects the active call and is not answered
AbortNotAnswered(s) ==
    (last'.op = "crecv" /\ Shr(last'.rx[1], 5) = SCS_ABORT)
    => /\ last'.tx = <<>>
       /\ transfers[s].active => calls'[transfers[s].rid].state = "rejected"

\* C27 Abort frames only for local violations: the client emits an abort
\* frame only when it detects a violation itself (toggle mismatch, length
\* mismatch, unknown command specifier, timeout); when it receives an ABORT
\* frame from the server it rejects the future and emits no frame in response.
C27_LocalAbortsOnly ==
    [][\A s \in ServerIds : ClientReacts(s) => (OnlyLocalAborts(s) /\ AbortNotAnswered(s))]_vars

\* the same for every reaction but the one to an ABORT frame
C27_LocalAbortsButEcho ==
    [][\A s \in ServerIds :
          (ClientReacts(s) /\ ~(last'.op = "crecv" /\ Shr(last'.rx[1], 5) = SCS_ABORT))
          => OnlyLocalAborts(s)]_vars

\* the client answered the abort frame of the server (READ_ONLY) with the
\* same abort frame
C27_Witness ==
    /\ last.op = "crecv"
    /\ Len(last.rx) = 8 /\ last.rx[1] = 128
    /\ ReadUInt32LE(last.rx, 4) = READ_ONLY
    /\ Len(last.tx) >= 1 /\ last.tx[1].data = last.rx
    /\ last.rid \in 1..Len(calls) /\ calls[last.rid].state = "rejected"

\* ---------------------------------------------------------------------------
\* ABORT frames at the server

\* C28 Server handling of ABORT: when the server receives a frame with
\* CCS = 4 (ABORT) from a known client it emits no frame, modifies no
\* dictionary entry, and marks that client's context inactive.
C28_ServerOnAbort ==
    [][(ServerStep /\ Shr(last'.rx[1], 5) = CCS_ABORT)
       => /\ last'.tx = <<>>
          /\ dict' = dict
          /\ ~sctx'.active]_vars

\* the ABORT frame came right after the ack of a segmented initiate, with the
\* context active, and left it inactive
C28_Witness ==
    /\ mode = "server"
    /\ last.op = "srecv" /\ last.tx = <<>>
    /\ Len(last.rx) = 8 /\ Shr(last.rx[1], 5) = CCS_ABORT
    /\ ServerSegmented
    /\ LastInitiate + 2 = Len(ServerWire)
    /\ ~sctx.active

\* ---------------------------------------------------------------------------
\* init(): the scan of the SDO parameter objects

Bit31(v) == BitAnd(Shr(v.hi, 2), 1)
Bit30(v) == BitAnd(Shr(v.hi, 1), 1)
Bit29(v) == BitAnd(v.hi, 1)
IsZero(v) == v.hi = 0 /\ v.lo = 0

\* the objects 0x1200..0x127F, SDO server parameters
ServerParamIndexes == 4608..4735

ErrorServerId == <<"ReferenceError", "ID of the SDO server is required.">>
ErrorDynamic == <<"TypeError", "Dynamic assignment is not supported.">>
ErrorExtended == <<"TypeError", "CAN extended frames are not supported.">>

\* what init() does with the value of sub-entry 1 or 2: continue with the
\* next object, throw, or go on with the 11-bit COB-ID
ScanCobId(v, id) ==
    IF IsZero(v) \/ Bit31(v) = 1 THEN [kind |-> "continue"]
    ELSE IF Bit30(v) = 1 THEN [kind |-> "throw", error |-> ErrorDynamic]
    ELSE IF Bit29(v) = 1 THEN [kind |-> "throw", error |-> ErrorExtended]
    ELSE [kind |-> "ok", cobId |-> InitCobId(v.lo, id)]

\* the outcome of a scan: the error thrown and the object that threw it, and
\* the table built so far, each peer with the object it came from
ScanInit == [error |-> NoError, at |-> 0, peers |-> <<>>]
Throw(r, index, error) == [r EXCEPT !.error = error, !.at = index]
Peer(index, cobIdTx, cobIdRx) == [from |-> index, cobIdTx |-> cobIdTx, cobIdRx |-> cobIdRx]

\* one turn of the loop of SdoClient.init()
SdoClient_initEntry(r, index, entry) ==
    LET serverId == entry[3]
        tx == ScanCobId(entry[1], serverId)
        rx == ScanCobId(entry[2], serverId)
    IN  IF serverId = 0 THEN Throw(r, index, ErrorServerId)
        ELSE IF tx.kind = "continue" THEN r
        ELSE IF tx.kind = "throw" THEN Throw(r, index, tx.error)
        ELSE IF rx.kind = "continue" THEN r
        ELSE IF rx.kind = "throw" THEN Throw(r, index, rx.error)
        ELSE [r EXCEPT !.peers = Put(@, serverId, Peer(index, tx.cobId, rx.cobId))]

\* one turn of the loop of SdoServer.init() of the device with node id deviceId
SdoServer_initEntry(r, index, entry, deviceId) ==
    LET rx == ScanCobId(entry[1], deviceId)
        tx == ScanCobId(entry[2], deviceId)
    IN  IF rx.kind = "continue" THEN r
        ELSE IF rx.kind = "throw" THEN Throw(r, index, rx.error)
        ELSE IF tx.kind = "continue" THEN r
        ELSE IF tx.kind = "throw" THEN Throw(r, index, tx.error)
        ELSE [r EXCEPT !.peers = Put(@, rx.cobId, Peer(index, tx.cobId, rx.cobId))]

\* the loop over the objects of a range, in ascending order of the index,
\* up to the first throw
RECURSIVE ScanObjects(_, _, _, _)
ScanObjects(p, indexes, r, client) ==
    IF indexes = {} \/ r.error # NoError THEN r
    ELSE LET index == CHOOSE i \in indexes : \A j \in indexes : i <= j
             r1 == IF p[index] = NoEntry THEN r
                   ELSE IF client THEN SdoClient_initEntry(r, index, p[index])
                   ELSE SdoServer_initEntry(r, index, p[index], ServerDeviceId)
         IN  ScanObjects(p, indexes \ {index}, r1, client)

SdoClient_init(p) == ScanObjects(p, ParamIndexes, ScanInit, TRUE)
SdoServer_init(p) == ScanObjects(p, ServerParamIndexes, ScanInit, FALSE)

\* the values of the COB-ID sub-entries: 0, 0x600, 0x60B, 0x580, 0x10600, and
\* 0x600 with bit 31, bits 31 and 30, bit 30, bit 29
ScanCobIds ==
    {U32(0, 0), U32(0, 1536), U32(0, 1547), U32(0, 1408), U32(0, 67072),
     U32(4, 1536), U32(6, 1536), U32(2, 1536), U32(1, 1536)}
ScanPeerIds == {0, 5, ServerDeviceId}
ScanEntries == {<<a, b, id>> : a \in ScanCobIds, b \in ScanCobIds, id \in ScanPeerIds}
GoodEntry == <<U32(0, 1536), U32(0, 1408), 12>>
ScanTables == {<<e>> : e \in ScanEntries} \cup {<<e, GoodEntry>> : e \in ScanEntries}
              \cup {<<GoodEntry, e>> : e \in ScanEntries}

\* the dictionary with the entries of a table as the first objects of both ranges
ParamsWith(table) ==
    [i \in ServerParamIndexes \cup ParamIndexes |->
        LET k == IF i \in ParamIndexes THEN i - 4736 + 1 ELSE i - 4608 + 1
        IN  IF k <= Len(table) THEN table[k] ELSE NoEntry]

Scans(op, r) ==
    /\ mode = "init"
    /\ last' = [op |-> op, rid |-> 0, rx |-> <<>>, tx |-> <<>>, error |-> r.error,
                at |-> r.at, peers |-> r.peers]
    /\ UNCHANGED <<mode, params, servers, listeners, sync, calls, queue, pending, transfers, orphans, sctx, dict,
                   c2s, s2c, events, wire>>

ClientInit == Scans("SdoClient.init", SdoClient_init(params))
ServerInit == Scans("SdoServer.init", SdoServer_init(params))

InitScan ==
    /\ mode = "init"
    /\ \E table \in ScanTables : params = ParamsWith(table)
    /\ servers = <<>>
    /\ listeners = [client |-> 0, server |-> 0]
    /\ sync = SyncInit
    /\ calls = <<>>
    /\ queue = [s \in ServerIds |-> <<>>]
    /\ pending = [s \in ServerIds |-> FALSE]
    /\ transfers = [s \in ServerIds |-> NoTransfer]
    /\ orphans = [s \in ServerIds |-> {}]
    /\ sctx = ServerCtxInit
    /\ dict = DictInit
    /\ c2s = <<>>
    /\ s2c = <<>>
    /\ events = [s \in ServerIds |-> <<>>]
    /\ wire = [s \in ServerIds |-> <<>>]
    /\ last = Observed("init", 0, <<>>, <<>>)

NextScan == ClientInit \/ ServerInit

SpecScan == InitScan /\ [][NextScan]_vars

\* ---------------------------------------------------------------------------
\* Validity bits of the parameter objects

\* this step is a run of init() of the client or of the server
ScanStep(op) == mode = "init" /\ last'.op = op
ScannedBy(op) == IF op = "SdoClient.init" THEN ParamIndexes ELSE ServerParamIndexes

\* a COB-ID sub-entry has bit 31 set; none has, but one has bit 30 or bit 29 set
InvalidEntry(e) == Bit31(e[1]) = 1 \/ Bit31(e[2]) = 1
UnsupportedEntry(e) ==
    /\ ~InvalidEntry(e)
    /\ Bit30(e[1]) = 1 \/ Bit29(e[1]) = 1 \/ Bit30(e[2]) = 1 \/ Bit29(e[2]) = 1

\* object i added no peer and raised no error
Ignored(i) ==
    /\ last'.at # i
    /\ \A k \in DOMAIN last'.peers : last'.peers[k].from # i

\* init() failed, at object i with an unsupported-configuration error unless
\* an earlier object made it fail
FailsUnsupported(i) ==
    /\ last'.error # NoError
    /\ last'.at <= i
    /\ last'.at = i => last'.error \in {ErrorDynamic, ErrorExtended}

ValidityBits(op, restricted(_, _)) ==
    \A i \in ScannedBy(op) :
        (params[i] # NoEntry /\ restricted(op, params[i]))
        => /\ InvalidEntry(params[i]) => Ignored(i)
           /\ UnsupportedEntry(params[i]) => FailsUnsupported(i)

AnyEntry(op, e) == TRUE

\* C29 Parameter validity bits: during init(), every parameter entry in which
\* a COB-ID sub-entry (1 or 2) has bit 31 set is ignored, adding no peer and
\* raising no error whatever its other bits and sub-entries are, and every
\* entry whose COB-IDs have bit 31 clear but bit 30 (dynamic) or bit 29
\* (extended) set makes init() fail with an unsupported-configuration error.
C29_ValidityBits ==
    [][\A op \in {"SdoClient.init", "SdoServer.init"} :
          ScanStep(op) => ValidityBits(op, AnyEntry)]_vars

\* the entries init() decides as the claim says: sub-entry 1 is not zero and,
\* if sub-entry 2 is the one with a flag, sub-entry 1 has none and sub-entry 2
\* is not zero; in the client scan sub-entry 3 is not zero
DecidedInOrder(op, e) ==
    /\ op = "SdoClient.init" => e[3] # 0
    /\ ~IsZero(e[1])
    /\ e[1].hi = 0 => ~IsZero(e[2])
    /\ e[1].hi # 0 => (Bit31(e[1]) = 1 \/ Bit31(e[2]) = 0)

C29_ValidityBitsInOrder ==
    [][\A op \in {"SdoClient.init", "SdoServer.init"} :
          ScanStep(op) => ValidityBits(op, DecidedInOrder)]_vars

\* SdoClient.init() threw ReferenceError at an entry whose COB-IDs have bit 31 set
C29_Witness ==
    /\ mode = "init" /\ last.op = "SdoClient.init"
    /\ last.error = ErrorServerId
    /\ InvalidEntry(params[last.at])

\* SdoServer.init() threw TypeError at an entry whose sub-entry 2 has bit 31 set
C29_WitnessServer ==
    /\ mode = "init" /\ last.op = "SdoServer.init"
    /\ last.error = ErrorDynamic
    /\ Bit31(params[last.at][2]) = 1

\* an entry with bit 31 set was passed over and the next one gave a peer
C29_WitnessIgnored ==
    /\ mode = "init" /\ last.op = "SdoClient.init"
    /\ last.error = NoError
    /\ InvalidEntry(params[4736]) /\ params[4736][3] # 0
    /\ DOMAIN last.peers = {12} /\ last.peers[12].from = 4737

\* ---------------------------------------------------------------------------
\* COB-ID derivation

\* (v & 0x7FF) if its low nibble is not zero, (v & 0x7FF) | peerId otherwise
DerivedCobId(v, peerId) ==
    LET m == v.lo % 2048
    IN  IF m % 16 # 0 THEN m ELSE BitOr(m, peerId)

\* the peers of the table were derived from their entries, with the node id
\* of sub-entry 3 as the peer id; sub-entry 1 is the client's cobIdTx and the
\* server's cobIdRx
DerivedFromEntries(op, peerIds) ==
    \A k \in DOMAIN last'.peers :
        LET peer == last'.peers[k]
            e == params[peer.from]
            tx == IF op = "SdoClient.init" THEN e[1] ELSE e[2]
            rx == IF op = "SdoClient.init" THEN e[2] ELSE e[1]
        IN  e[3] \in peerIds
            => /\ peer.cobIdTx = DerivedCobId(tx, e[3])
               /\ peer.cobIdRx = DerivedCobId(rx, e[3])
               /\ peer.cobIdTx \in 0..2047 /\ peer.cobIdRx \in 0..2047

\* C30 COB-ID derivation: for every accepted parameter entry, in the client
\* scan (0x1280..0x12FF) and in the server scan (0x1200..0x127F), each
\* effective COB-ID equals (v & 0x7FF) if its low nibble is non-zero and
\* (v & 0x7FF) | peer_id otherwise, v being the sub-entry value and peer_id
\* the node id of the peer stored in sub-entry 3; the result fits in 11 bits.
C30_CobIdDerivation ==
    [][\A op \in {"SdoClient.init", "SdoServer.init"} :
          ScanStep(op) => DerivedFromEntries(op, ScanPeerIds)]_vars

\* the same for the client scan alone, and for the server scan of the entries
\* whose sub-entry 3 is the node id of the server itself
C30_CobIdDerivationClient ==
    [][ScanStep("SdoClient.init") => DerivedFromEntries("SdoClient.init", ScanPeerIds)]_vars
C30_CobIdDerivationOwnId ==
    [][ScanStep("SdoServer.init") => DerivedFromEntries("SdoServer.init", {ServerDeviceId})]_vars

\* the server scan accepted an entry naming client 5 with the COB-IDs 0x600
\* and 0x580, and listens on 0x60B
C30_Witness ==
    /\ mode = "init" /\ last.op = "SdoServer.init"
    /\ params[4608] = <<U32(0, 1536), U32(0, 1408), 5>>
    /\ 1547 \in DOMAIN last.peers
    /\ last.peers[1547] = Peer(4608, 1419, 1547)

\* the client scan accepted the same entry and sends on 0x605
C30_WitnessClient ==
    /\ mode = "init" /\ last.op = "SdoClient.init"
    /\ params[4736] = <<U32(0, 1536), U32(0, 1408), 5>>
    /\ 5 \in DOMAIN last.peers
    /\ last.peers[5] = Peer(4736, 1541, 1413)

\* ---------------------------------------------------------------------------
\* The peer table across addServer(), removeServer(), init() and the calls

\* the arguments of addServer(): server 11 with the default COB-IDs 0x600 and
\* 0x580; server 12 with the defaults, with 0x600 with bit 31 (not valid), or
\* with 0x580 with bit 30 (dynamic)
TableServers ==
    {<<11, U32(0, 1536), U32(0, 1408)>>, <<12, U32(0, 1536), U32(0, 1408)>>,
     <<12, U32(4, 1536), U32(0, 1408)>>, <<12, U32(0, 1536), U32(2, 1408)>>}

\* number of init() calls that return
MaxInits == 2

TableAddServer(args) ==
    /\ mode = "table"
    /\ Configure("addServer", args[1], SdoClient_addServer(params, args[1], args[2], args[3]))

TableRemoveServer(serverId) ==
    /\ mode = "table"
    /\ Configure("removeServer", serverId, SdoClient_removeServer(params, serverId))

\* this.servers[serverId] = {...} for every peer of a scan
Assign(table, peers) ==
    [k \in DOMAIN table \cup DOMAIN peers |-> IF k \in DOMAIN peers THEN peers[k] ELSE table[k]]

\* SdoClient.init(): the scan assigns its peers in this.servers, each with a
\* new Queue, up to the first throw; the handler is added after the loop
SdoClient_initStep ==
    /\ listeners.client < MaxInits
    /\ \E r \in {SdoClient_init(params)} :
           /\ servers' = Assign(servers, r.peers)
           /\ queue' = [s \in ServerIds |-> IF s \in DOMAIN r.peers THEN <<>> ELSE queue[s]]
           /\ pending' = [s \in ServerIds |-> IF s \in DOMAIN r.peers THEN FALSE ELSE pending[s]]
           /\ listeners' = IF r.error = NoError THEN [listeners EXCEPT !.client = @ + 1]
                           ELSE listeners
           /\ last' = [op |-> "SdoClient.init", rid |-> 0, rx |-> <<>>, tx |-> <<>>,
                       error |-> r.error, at |-> r.at]
    /\ UNCHANGED <<mode, params, sync, calls, transfers, orphans, sctx, dict, c2s, s2c, events, wire>>

SdoClientInit == mode = "table" /\ SdoClient_initStep

TableRequests ==
    {Req("upload", s, 8192, 0, <<>>, 0) : s \in ServerIds}
    \cup {Req("download", 11, 8192, 0, Payload(2), 0)}

InitTable ==
    /\ mode = "table"
    /\ params = ParamsNone
    /\ servers = <<>>
    /\ listeners = [client |-> 0, server |-> 0]
    /\ sync = SyncInit
    /\ calls = <<>>
    /\ queue = [s \in ServerIds |-> <<>>]
    /\ pending = [s \in ServerIds |-> FALSE]
    /\ transfers = [s \in ServerIds |-> NoTransfer]
    /\ orphans = [s \in ServerIds |-> {}]
    /\ sctx = ServerCtxInit
    /\ dict = DictInit
    /\ c2s = <<>>
    /\ s2c = <<>>
    /\ events = [s \in ServerIds |-> <<>>]
    /\ wire = [s \in ServerIds |-> <<>>]
    /\ last = Observed("init", 0, <<>>, <<>>)

NextTable ==
    \/ \E args \in TableServers : TableAddServer(args)
    \/ \E serverId \in ServerIds : TableRemoveServer(serverId)
    \/ SdoClientInit
    \/ \E req \in TableRequests : Upload(req)
    \/ \E req \in TableRequests : Download(req)

SpecTable == InitTable /\ [][NextTable]_vars

\* the server ids with a valid parameter entry in the dictionary
ValidIds(p) ==
    {p[i][3] : i \in {j \in ParamIndexes :
                          p[j] # NoEntry /\ ~InvalidEntry(p[j]) /\ ~IsZero(p[j][1])
                          /\ ~IsZero(p[j][2])}}

\* init() has returned in this step
InitReturns == last'.op = "SdoClient.init" /\ last'.error = NoError /\ listeners' # listeners

\* upload() or download() for server id went on to its queue
Accepted(id) == Len(calls') = Len(calls) + 1 /\ calls'[Len(calls')].req.serverId = id

\* upload() or download() for server id threw
Thrown(id) == last'.op \in {"upload", "download"} /\ last'.rid = 0 /\ last'.serverId = id

NotMappedNoFrame ==
    /\ last'.error = ErrorNotMapped
    /\ last'.tx = <<>> /\ c2s' = c2s /\ wire' = wire /\ calls' = calls

\* the call made right after init() returned
CallAfterInit(id) ==
    /\ last.op = "SdoClient.init" /\ last.error = NoError
    /\ Accepted(id) \/ Thrown(id)

\* C31 Peer table follows the dictionary: after any sequence of addServer and
\* removeServer calls followed by init(), the peer table of the client holds
\* exactly the server ids with a valid parameter entry in the dictionary; an
\* upload or download to an id of the table is accepted, one to an id removed
\* before the init() fails with the not-mapped error and emits no frame.
C31_PeerTableFollowsDictionary ==
    [][/\ InitReturns => DOMAIN servers' = ValidIds(params)
       /\ \A id \in ServerIds :
              CallAfterInit(id) =>
                  IF id \in ValidIds(params) THEN Accepted(id)
                  ELSE Thrown(id) /\ NotMappedNoFrame]_vars

\* the same for the first init() of a client, whose table was empty
C31_PeerTableFirstInit ==
    [][/\ (InitReturns /\ servers = <<>>) => DOMAIN servers' = ValidIds(params)
       /\ \A id \in ServerIds :
              (CallAfterInit(id) /\ listeners.client = 1 /\ DOMAIN servers = ValidIds(params))
              => IF id \in ValidIds(params) THEN Accepted(id)
                 ELSE Thrown(id) /\ NotMappedNoFrame]_vars

\* server 11 was removed from the dictionary and init() has returned a second
\* time: the table still maps 11, and an upload to it has sent its frame
C31_Witness ==
    /\ mode = "table"
    /\ listeners.client = 2
    /\ ValidIds(params) = {}
    /\ 11 \in DOMAIN servers
    /\ Len(calls) = 1 /\ calls[1].req.serverId = 11 /\ calls[1].state = "started"
    /\ last.op = "upload" /\ Len(last.tx) = 1

\* ---------------------------------------------------------------------------
\* init() called again on a running client or server

\* SdoClient.init() again, while no call is queued or running on the servers
\* it assigns
ClientReinit ==
    /\ mode = "closed"
    /\ \A s \in DOMAIN SdoClient_init(params).peers : queue[s] = <<>> /\ ~pending[s]
    /\ SdoClient_initStep

\* SdoServer.init() again: this.clients[cobIdRx] = new Transfer(...) for the
\* entry of the client, and one more handler
ServerReinit ==
    /\ mode = "closed"
    /\ listeners.server < MaxInits
    /\ sctx' = ServerCtxInit
    /\ listeners' = [listeners EXCEPT !.server = @ + 1]
    /\ last' = [op |-> "SdoServer.init", rid |-> 0, rx |-> <<>>, tx |-> <<>>, error |-> NoError]
    /\ UNCHANGED <<mode, params, sync, servers, calls, queue, pending, transfers, orphans, dict,
                   c2s, s2c, events, wire>>

\* number of frames on the bus after which none is delivered: handlers that
\* each answer a frame keep multiplying the frames
MaxWire == 10

ReinitRequests ==
    {Req("upload", ServerDeviceId, 8192, 0, <<>>, 0),
     Req("download", ServerDeviceId, 8192, 0, Payload(8), 0)}

NextReinit ==
    \/ \E req \in ReinitRequests : Upload(req)
    \/ \E req \in ReinitRequests : Download(req)
    \/ Len(ServerWire) < MaxWire /\ ClientOnMessage
    \/ Len(ServerWire) < MaxWire /\ ServerOnMessage
    \/ ClientReinit
    \/ ServerReinit

SpecReinit == Init /\ [][NextReinit]_vars

\* the entries this step added to the log of the connection of server s
NewWire(s) == SubSeq(wire'[s], Len(wire[s]) + 1, Len(wire'[s]))

\* the step of the server is one run of SdoServer._onMessage on the frame
ServerOnce ==
    (ServerStep /\ c2s # <<>> /\ c2s' = Tail(c2s) /\ Head(c2s).id = ServerCobIdRx)
    => \E e \in {SdoServer_onMessage(sctx, Head(c2s).data, dict)} :
           /\ sctx' = e.t
           /\ dict' = e.dict
           /\ last'.tx = e.out
           /\ Len(last'.tx) <= 1

\* the step of the client is one run of SdoClient._onMessage on the frame: the
\* frames sent for the call, and its Transfer unless the next call has started
ClientOnce(s) ==
    (ClientHandlesFrame /\ s2c # <<>> /\ s2c' = Tail(s2c) /\ ServerOfCobId(Head(s2c).id) = {s})
    => \E e \in {SdoClient_onMessage(transfers[s], Head(s2c).data)} :
           LET sent == {i \in DOMAIN NewWire(s) : NewWire(s)[i].rid = transfers[s].rid}
           IN  /\ Cardinality(sent) = Len(e.out)
               /\ Cardinality(sent) <= 1
               /\ transfers'[s].rid = transfers[s].rid => transfers'[s] = e.t

\* C32 Re-init is idempotent with respect to frame delivery: after init() has
\* been called n >= 1 times on the same SdoClient or SdoServer, each inbound
\* frame is processed exactly once by that state machine, with at most one
\* transition and one outbound frame per inbound frame, and the transfers
\* still complete in submission order with at most one active per server.
C32_ReinitIdempotent ==
    [][/\ ServerOnce
       /\ \A s \in ServerIds : ClientOnce(s)
       /\ C1_Fifo' /\ C2_AtMostOneActive']_vars

\* the same while init() has been called once on each
C32_SingleInit ==
    [][(listeners = [client |-> 1, server |-> 1])
       => /\ ServerOnce
          /\ \A s \in ServerIds : ClientOnce(s)
          /\ C1_Fifo' /\ C2_AtMostOneActive']_vars

\* after its second init() the server has answered one upload request with
\* two frames
C32_Witness ==
    /\ mode = "closed"
    /\ listeners.server = 2
    /\ last.op = "srecv"
    /\ Shr(last.rx[1], 5) = CCS_UPLOAD_INITIATE
    /\ Len(last.tx) = 2

\* ---------------------------------------------------------------------------
\* The index addServer() and addClient() create their entry at

\* SdoServer.getClient(clientId): the index of the first entry whose sub-entry
\* 3 holds clientId, 0 for null
SdoServer_getClient(p, clientId) ==
    FirstIndex({i \in ServerParamIndexes : p[i] # NoEntry /\ p[i][3] = clientId}, 0)

\* SdoServer.addClient(clientId, cobIdTx, cobIdRx): the loop leaves index at
\* 0x1280 when every object of the range exists
SdoServer_addClient(p, clientId, cobIdTx, cobIdRx) ==
    IF clientId < 1 \/ clientId > 127 THEN Configured(p, "RangeError")
    ELSE IF SdoServer_getClient(p, clientId) # 0 THEN Configured(p, "EdsError")
    ELSE LET index == FirstIndex({i \in ServerParamIndexes : p[i] = NoEntry}, 4736)
         IN  Eds_addEntry(p, index, <<cobIdRx, cobIdTx, clientId>>)

\* an SDO parameter object of an EDS file, without the node id of the peer
ForeignEntry == <<U32(4, 0), U32(4, 0), 0>>

\* the objects of a range that exist at construction: none, the first, the
\* first and the third, all but the second, all
Occupied(range) ==
    LET first == CHOOSE i \in range : \A j \in range : i <= j
    IN  {{}, {first}, {first, first + 2}, range \ {first + 1}, range}

AllocParams ==
    {[i \in ServerParamIndexes \cup ParamIndexes |->
         IF i \in held \cup taken THEN ForeignEntry ELSE NoEntry] :
     held \in Occupied(ServerParamIndexes), taken \in Occupied(ParamIndexes)}

\* the node ids addServer() and addClient() are called with
AllocIds == {1, 2}

AllocAddServer(serverId) ==
    /\ mode = "alloc"
    /\ Configure("addServer", serverId,
                 SdoClient_addServer(params, serverId, U32(0, 1536), U32(0, 1408)))

AllocAddClient(clientId) ==
    /\ mode = "alloc"
    /\ Configure("addClient", clientId,
                 SdoServer_addClient(params, clientId, U32(0, 1408), U32(0, 1536)))

InitAlloc ==
    /\ mode = "alloc"
    /\ params \in AllocParams
    /\ servers = <<>>
    /\ listeners = [client |-> 0, server |-> 0]
    /\ sync = SyncInit
    /\ calls = <<>>
    /\ queue = [s \in ServerIds |-> <<>>]
    /\ pending = [s \in ServerIds |-> FALSE]
    /\ transfers = [s \in ServerIds |-> NoTransfer]
    /\ orphans = [s \in ServerIds |-> {}]
    /\ sctx = ServerCtxInit
    /\ dict = DictInit
    /\ c2s = <<>>
    /\ s2c = <<>>
    /\ events = [s \in ServerIds |-> <<>>]
    /\ wire = [s \in ServerIds |-> <<>>]
    /\ last = Observed("init", 0, <<>>, <<>>)

NextAlloc ==
    \/ \E serverId \in AllocIds : AllocAddServer(serverId)
    \/ \E clientId \in AllocIds : AllocAddClient(clientId)

SpecAlloc == InitAlloc /\ [][NextAlloc]_vars

\* the objects a step created or changed
Created == {i \in DOMAIN params' : i \notin DOMAIN params \/ params'[i] # params[i]}

\* op returned
Succeeds(op) == last'.op = op /\ last'.error = "none" /\ params' # params

\* the one object created is the lowest of the range that held no entry
AtLowestFree(range) ==
    \E i \in range :
        /\ params[i] = NoEntry
        /\ \A j \in range : j < i => params[j] # NoEntry
        /\ Created = {i}

\* C33 Index allocation: every successful addServer creates its parameter
\* entry at the lowest index of 0x1280..0x12FF that holds no entry, and never
\* at an index outside that range, whatever entries occupy the range;
\* addClient allocates likewise within 0x1200..0x127F only.
C33_IndexAllocation ==
    [][/\ Succeeds("addServer") => AtLowestFree(ParamIndexes)
       /\ Succeeds("addClient") => AtLowestFree(ServerParamIndexes)]_vars

\* the same while the range has an index without entry
C33_IndexAllocationWithRoom ==
    [][/\ (Succeeds("addServer") /\ \E i \in ParamIndexes : params[i] = NoEntry)
          => AtLowestFree(ParamIndexes)
       /\ (Succeeds("addClient") /\ \E i \in ServerParamIndexes : params[i] = NoEntry)
          => AtLowestFree(ServerParamIndexes)]_vars

\* with 0x1200..0x127F full, addClient(1) has created a server parameter at
\* 0x1280, the first index of the client parameters
C33_Witness ==
    /\ mode = "alloc"
    /\ last.op = "addClient" /\ last.error = "none"
    /\ \A i \in ServerParamIndexes : params[i] = ForeignEntry
    /\ params[4736] = <<U32(0, 1536), U32(0, 1408), 1>>

\* ---------------------------------------------------------------------------
\* Completion of a download of more than 4 bytes

\* the client has heard a download-initiate ack for call rid
InitiateAcked(rid) ==
    \E i \in PeerFramesOf(rid) : Cs(ServerWire[i]) = SCS_DOWNLOAD_INITIATE

\* the segments the client has sent for call rid carry every byte of its payload
SegmentsCover(rid) ==
    LET data == calls[rid].req.data
        segs == ClientDownloadSegs(rid)
    IN  /\ Cardinality(segs) = (Len(data) + 6) \div 7
        /\ \A i \in segs : ServerWire[i].m.data = SpecifiedSegment(data, Rank(segs, i) - 1)

CompleteDownload(rid) ==
    (LongDownload(rid) /\ Resolved_(rid)) => (InitiateAcked(rid) /\ SegmentsCover(rid))

\* C34 No premature download completion: a client download with a payload of
\* more than 4 bytes resolves only after the client has received the
\* download-initiate ack and has emitted segment frames covering every payload
\* byte; a download-segment ack that arrives before the initiate ack does not
\* resolve the transfer.
C34_NoPrematureCompletion ==
    mode = "client" => \A rid \in 1..Len(calls) : CompleteDownload(rid)

\* the same for the downloads whose first frame from the server is the
\* download-initiate ack, the only one, followed by frames of the download
\* direction only
C34_CompletionInitiatedOnce ==
    mode = "client" => \A rid \in 1..Len(calls) : InitiatedOnce(rid) => CompleteDownload(rid)

\* the download of 8 bytes has resolved on a download-segment ack, the first
\* frame of the server, with no segment sent
C34_Witness ==
    /\ mode = "client"
    /\ Len(calls) >= 1 /\ LongDownload(1) /\ Resolved_(1)
    /\ ClientDownloadSegs(1) = {}
    /\ Cardinality(PeerFramesOf(1)) = 1
    /\ \A i \in PeerFramesOf(1) : ServerWire[i].m.data = <<32>> \o Alloc(7)

\* ---------------------------------------------------------------------------
\* The direction of the frame that completes a transfer

\* this step the client handles a frame that resolves call rid
ResolvesNow(rid) ==
    /\ ClientHandlesFrame
    /\ calls[rid].state = "started"
    /\ calls'[rid].state = "resolved"

\* the frame handled completes an upload: an expedited upload-initiate reply,
\* or an upload segment with c = 1
CompletesUpload(data) ==
    \/ Shr(data[1], 5) = SCS_UPLOAD_INITIATE /\ BitAnd(data[1], 2) # 0
    \/ Shr(data[1], 5) = SCS_UPLOAD_SEGMENT /\ BitAnd(data[1], 1) = 1

\* the frame handled completes download rid: the download-initiate ack of an
\* expedited download, or the ack that follows its last segment
CompletesDownload(rid, data) ==
    \/ Shr(data[1], 5) = SCS_DOWNLOAD_INITIATE /\ Len(calls[rid].req.data) <= 4
    \/ Shr(data[1], 5) = SCS_DOWNLOAD_SEGMENT /\ SegmentsCover(rid)

\* C35 Direction consistency: an active client upload is completed only by an
\* expedited upload-initiate reply or an upload segment with c = 1, an active
\* download only by a download-initiate ack (expedited) or the ack of its last
\* segment; a server response of the other direction never resolves the
\* transfer.
C35_DirectionConsistency ==
    [][\A rid \in 1..Len(calls) :
          ResolvesNow(rid)
          => IF calls[rid].req.kind = "upload" THEN CompletesUpload(last'.rx)
             ELSE CompletesDownload(rid, last'.rx)]_vars

\* the upload has resolved on a download-initiate ack
C35_Witness ==
    /\ mode = "client"
    /\ last.op = "crecv" /\ last.rid = 1
    /\ Shr(last.rx[1], 5) = SCS_DOWNLOAD_INITIATE
    /\ calls[1].req.kind = "upload" /\ calls[1].state = "resolved"
    /\ Cardinality(PeerFramesOf(1)) = 1

\* ---------------------------------------------------------------------------
\* Responses to a transfer that has ended

\* the index and sub-index an initiate reply or an abort frame carries
FrameKey(data) == <<ReadUInt16LE(data, 1), data[4]>>

\* this step the client handles, with the Transfer of server s active, an
\* initiate reply or an abort frame the server produced for another entry
\* than the one of that Transfer
DelayedResponse(s) ==
    /\ transfers[s] # NoTransfer
    /\ transfers[s].active
    /\ ClientHandlesFrame
    /\ last'.rid = transfers[s].rid
    /\ Shr(last'.rx[1], 5) \in {SCS_UPLOAD_INITIATE, SCS_DOWNLOAD_INITIATE, SCS_ABORT}
    /\ FrameKey(last'.rx) # <<transfers[s].index, transfers[s].subIndex>>

\* the running transfer is neither settled nor advanced, and nothing is sent
Untouched(s) ==
    /\ calls'[transfers[s].rid] = calls[transfers[s].rid]
    /\ transfers'[s] = transfers[s]
    /\ last'.tx = <<>>

\* C36 No cross-talk between consecutive transfers: when transfer A to a
\* server has ended and the next queued transfer B to that server has started,
\* a delayed response frame the server produced for A, carrying A's index and
\* sub-index, does not resolve, advance or abort B.
C36_NoCrossTalk ==
    [][\A s \in ServerIds : DelayedResponse(s) => Untouched(s)]_vars

\* the upload of 0x2000 timed out, the call after it to the same server
\* started, and the server's reply for 0x2000 has resolved that call
C36_Witness ==
    /\ mode = "closed"
    /\ Len(calls) = 2
    /\ calls[1].req.serverId = ServerDeviceId /\ calls[2].req.serverId = ServerDeviceId
    /\ calls[1].req.kind = "upload" /\ calls[1].req.index = 8192
    /\ calls[1].state = "rejected" /\ calls[1].code = TIMEOUT
    /\ calls[2].req.kind = "upload" /\ calls[2].req.index = 8198
    /\ calls[2].state = "resolved" /\ calls[2].value = <<66>>
    /\ last.op = "crecv" /\ last.rid = 2 /\ FrameKey(last.rx) = <<8192, 0>>


\* ---------------------------------------------------------------------------
\* Progress of the client and the server over the lossless channel

\* the entry a call names
Target(req) == Lookup(req.index, req.subIndex)

\* an upload of a readable entry, or a download to a writable entry
Served(req) ==
    /\ Len(Target(req)) = 2
    /\ IF req.kind = "upload" THEN AccessType(Target(req)) \in {"ro", "rw", "const"}
       ELSE AccessType(Target(req)) \in {"wo", "rw"}

\* the value of a download is within the limits of its entry
WithinLimits(req) == req.kind = "download" => LimitCode(Target(req), req.data) = 0

\* neither side has a frame to process: every frame sent has been handled
Quiescent == c2s = <<>> /\ s2c = <<>>

\* a transfer is active while no frame is on its way to either side
Stuck == Quiescent /\ \E s \in ServerIds : transfers[s] # NoTransfer /\ transfers[s].active

\* C37 Protocol progress: with the SdoClient and the SdoServer connected by a
\* lossless in-order channel and no timer expiry, every submitted upload of a
\* readable entry and every submitted download to a writable entry, of any
\* bounded payload length, eventually resolves, and no state is reached in
\* which a transfer is active while neither side has a frame to send or
\* process. Every step adds a call or handles a frame, and the calls are
\* bounded, so a call eventually resolves when it is resolved in every state
\* in which all frames have been handled.
C37_Progress ==
    /\ ~Stuck
    /\ Quiescent => \A rid \in 1..Len(calls) : Served(calls[rid].req) => Resolved_(rid)

\* the same for the downloads whose value is within the limits of the entry;
\* a value outside them is refused by the server and the call is rejected
C37_ProgressWithinLimits ==
    /\ ~Stuck
    /\ Quiescent =>
           \A rid \in 1..Len(calls) :
               (Served(calls[rid].req) /\ WithinLimits(calls[rid].req)) => Resolved_(rid)

\* a download of 14 bytes and, queued behind it, the upload of the 10 bytes of
\* 0x2006 have both resolved
C37_Witness ==
    /\ mode = "closed"
    /\ Quiescent
    /\ Len(calls) = 2
    /\ calls[1].req.kind = "download" /\ Len(calls[1].req.data) = 14 /\ Resolved_(1)
    /\ calls[2].req.kind = "upload" /\ calls[2].req.index = 8198 /\ Resolved_(2)
    /\ calls[2].value = Payload(10)

\* the download of the value 8 to 0x2003, whose low limit is 16, is rejected
C37_WitnessRefused ==
    /\ mode = "closed"
    /\ Quiescent
    /\ Len(calls) >= 1
    /\ calls[1].req.kind = "download" /\ calls[1].req.index = 8195 /\ calls[1].req.data = <<8>>
    /\ calls[1].state = "rejected" /\ calls[1].code = VALUE_LOW

\* ---------------------------------------------------------------------------
\* SdoClient.init() that throws

\* init() has thrown in this step
InitFails == last'.op = "SdoClient.init" /\ last'.error # NoError

\* C38 Failed init is atomic: if SdoClient.init() fails (missing server id,
\* dynamic or extended COB-ID in some entry) the peer table is exactly what it
\* was before the call, no server of an entry scanned before the failing one
\* has been added, and no message handler has been registered.
C38_FailedInitAtomic == [][InitFails => servers' = servers /\ listeners' = listeners]_vars

\* a failed init() registers no message handler, and leaves the peer table
\* alone when no entry before the failing one is valid
C38_FailedInitNoHandler ==
    [][InitFails =>
           /\ listeners' = listeners
           /\ (\A i \in ParamIndexes :
                   i < last'.at => (params[i] = NoEntry \/ InvalidEntry(params[i])))
              => servers' = servers]_vars

\* init() threw at 0x1281, the entry of server 12 with a dynamic COB-ID, on a
\* client that had no peer: server 11 of 0x1280 is in the table, no handler is
\* registered
C38_Witness ==
    /\ mode = "table"
    /\ last.op = "SdoClient.init" /\ last.error = ErrorDynamic /\ last.at = 4737
    /\ listeners.client = 0
    /\ DOMAIN servers = {11}
    /\ servers[11].from = 4736

\* ---------------------------------------------------------------------------
\* The Sync producer

\* calls of start() in one behaviour
MaxStarts == 2
\* frames sent in one behaviour: the counter goes past one byte
MaxSyncs == 257
\* the periods start() is called with, in milliseconds
SyncTimes == {10, 100}

\* Buffer.from([n]): the value of the array element, as one byte
BufferFrom(n) == <<n % 256>>

\* the intervals without the one of a handle: clearInterval()
ClearInterval(intervals, handle) ==
    [h \in DOMAIN intervals \ {handle} |-> intervals[h]]

\* start(syncTime): setInterval() returns a new handle, kept in this.timer
SyncStart(syncTime) ==
    /\ mode = "sync"
    /\ sync.handles < MaxStarts
    /\ LET handle == sync.handles + 1
       IN  sync' = [sync EXCEPT !.timer = handle,
                                !.intervals = Put(@, handle, syncTime),
                                !.handles = handle,
                                !.called = "start"]
    /\ last' = Observed("Sync.start", syncTime, <<>>, <<>>)
    /\ UNCHANGED <<mode, params, servers, listeners, calls, queue, pending, transfers, orphans,
                   sctx, dict, c2s, s2c, events, wire>>

\* stop(): clearInterval(this.timer)
SyncStop ==
    /\ mode = "sync"
    /\ sync' = [sync EXCEPT !.intervals = ClearInterval(@, sync.timer),
                            !.called = "stop",
                            !.prev = -1]
    /\ last' = Observed("Sync.stop", 0, <<>>, <<>>)
    /\ UNCHANGED <<mode, params, servers, listeners, calls, queue, pending, transfers, orphans,
                   sctx, dict, c2s, s2c, events, wire>>

\* the callback of a running interval: _sendSync()
Sync_sendSync(handle) ==
    /\ mode = "sync"
    /\ handle \in DOMAIN sync.intervals
    /\ sync.syncCount < MaxSyncs
    /\ LET syncCount == sync.syncCount + 1
           data == BufferFrom(syncCount)
       IN  /\ sync' = [sync EXCEPT !.syncCount = syncCount,
                                   !.prev = IF sync.called = "start" THEN data[1] ELSE -1]
           /\ last' = Observed("Sync._sendSync", handle, <<>>, <<Msg(0, data)>>)
    /\ UNCHANGED <<mode, params, servers, listeners, calls, queue, pending, transfers, orphans,
                   sctx, dict, c2s, s2c, events, wire>>

InitSync ==
    /\ mode = "sync"
    /\ params = ParamsNone
    /\ servers = <<>>
    /\ listeners = [client |-> 0, server |-> 0]
    /\ sync = SyncInit
    /\ calls = <<>>
    /\ queue = [s \in ServerIds |-> <<>>]
    /\ pending = [s \in ServerIds |-> FALSE]
    /\ transfers = [s \in ServerIds |-> NoTransfer]
    /\ orphans = [s \in ServerIds |-> {}]
    /\ sctx = ServerCtxInit
    /\ dict = DictInit
    /\ c2s = <<>>
    /\ s2c = <<>>
    /\ events = [s \in ServerIds |-> <<>>]
    /\ wire = [s \in ServerIds |-> <<>>]
    /\ last = Observed("init", 0, <<>>, <<>>)

NextSync ==
    \/ \E syncTime \in SyncTimes : SyncStart(syncTime)
    \/ SyncStop
    \/ \E handle \in 1..MaxStarts : Sync_sendSync(handle)

SpecSync == InitSync /\ [][NextSync]_vars

\* a sync frame is sent in this step, and the counter it carries
SendsSync == sync'.syncCount # sync.syncCount
SyncCounter == last'.tx[1].data[1]

\* the intervals that this.timer does not refer to
Leaked == DOMAIN sync.intervals \ {sync.timer}

\* C39 Sync producer stop: for any sequence of start(syncTime) and stop()
\* calls on a Sync object, after the last stop() no further sync frame is
\* sent; between a start and the next stop the frames carry a counter that
\* increases by exactly one per frame.
C39_SyncStop ==
    [][/\ sync.called = "stop" => ~SendsSync
       /\ (SendsSync /\ sync.called = "start" /\ sync.prev # -1)
              => SyncCounter = sync.prev + 1]_vars

\* the same while start() is not called on a running producer, and up to the
\* counter 255
C39_SyncStopSingleStart ==
    [][/\ (sync.called = "stop" /\ Leaked = {}) => ~SendsSync
       /\ (SendsSync /\ sync.called = "start" /\ sync.prev # -1 /\ sync.prev < 255)
              => SyncCounter = sync.prev + 1]_vars

\* start() was called twice and then stop(): the interval of the first start()
\* has sent a frame after the stop()
C39_Witness ==
    /\ mode = "sync"
    /\ sync.handles = 2 /\ sync.timer = 2
    /\ sync.called = "stop"
    /\ DOMAIN sync.intervals = {1}
    /\ last.op = "Sync._sendSync" /\ last.rid = 1

\* the frame after the one with the counter 255 carries 0
C39_WitnessWrap ==
    /\ mode = "sync"
    /\ sync.handles = 1 /\ sync.called = "start"
    /\ sync.syncCount = 256
    /\ last.op = "Sync._sendSync" /\ last.tx[1].data = <<0>>

====
